---- MODULE Spec2Model ----
(***************************************************************************)
(* Model of the Saitek Pro Flight HID driver (hid-saitek-proflight.c, the  *)
(* revision with the sysfs attribute and the rw-semaphore): the digit and  *)
(* display codecs, the two raw-event decoders, the text serializer, the    *)
(* feature report builder and the lock discipline of show/store/raw_event. *)
(*                                                                         *)
(* Characters are one-character strings, C strings are sequences of them   *)
(* (C index i is TLA+ index i + 1), bytes are integers in 0..255 and       *)
(* one-bit bitfields are the integers 0 and 1.                             *)
(***************************************************************************)
EXTENDS Integers, Sequences, FiniteSets, TLC

VARIABLES
    product_id,   \* struct proflight.product_id
    mode,         \* struct proflight.mode: "N" or "R"
    multipanel,   \* struct proflight_multipanel
    radiopanel,   \* struct proflight_radiopanel
    dmabuf,       \* struct proflight.dmabuf: the SAITEK_HID_BUF_LEN bytes allocated
    lock,         \* struct proflight.lock (rw_semaphore): [writer, readers]
    ev_pc,        \* position of the report delivery path in saitek_proflight_raw_event
    report,       \* the report in flight: [id, type, data, size]
    ev_ret,       \* ret_val of saitek_proflight_raw_event
    last_report,  \* data of the last report that was accepted
    st_pc,        \* position of the writer in saitek_proflight_store
    wbuf,         \* the write in flight: [buf, count]
    st_ret,       \* ret_val of saitek_proflight_store
    sh_pc,        \* position of each reader in saitek_proflight_show
    sh_out,       \* each reader's output buffer
    sh_ret,       \* each reader's ret_val
    hid_res,      \* what hid_hw_raw_request returned to the write in flight
    hid_buf,      \* buf[0..len-1] as hid_hw_raw_request read it for that write
    zeroed,       \* a read in mode 'R' zeroed the counters and no report came since
    last_out,     \* the text the last read returned, if no report or write came since
    env_pc,       \* position of the environment script of SpecDecode and SpecCodec
    seen          \* SpecEdges: the counts it started from, the reports accepted since;
                  \* SpecReads: the press edges decoded, the presses reads reported;
                  \* SpecProbe: res and initialized of the attach, what it has set up;
                  \* SpecRoundTrip: the line of the last write that was applied

vars ==
    <<product_id, mode, multipanel, radiopanel, dmabuf, lock, ev_pc, report,
      ev_ret, last_report, st_pc, wbuf, st_ret, sh_pc, sh_out, sh_ret,
      hid_res, hid_buf, zeroed, last_out, env_pc, seen>>

(***************************************************************************)
(* Bounds of the model.                                                    *)
(***************************************************************************)
\* number of callers that may be inside saitek_proflight_show at once
NumReaders == 2
\* report sizes range over 0..MaxSize
MaxSize == 4
\* length of the enumerated display texts of SpecCodec
MaxLen == 6

\* reports delivered in a run of SpecEdges
MaxDeliveries == 3

(***************************************************************************)
(* Program constants.                                                      *)
(***************************************************************************)
USB_DEVICE_ID_SAITEK_PROFLIGHT_RADIOPANEL == 3333
USB_DEVICE_ID_SAITEK_PROFLIGHT_MULTIPANEL == 3334

PANEL_DIGIT_MINUS == 14
PANEL_DIGIT_DOT == 208
PANEL_DIGIT_NULL == 15

MULTIPANEL_LIGHT_AP == 1
MULTIPANEL_LIGHT_HDG == 2
MULTIPANEL_LIGHT_NAV == 4
MULTIPANEL_LIGHT_IAS == 8
MULTIPANEL_LIGHT_ALT == 16
MULTIPANEL_LIGHT_VS == 32
MULTIPANEL_LIGHT_APR == 64
MULTIPANEL_LIGHT_REV == 128

SAITEK_HID_BUF_LEN == 13

RADIOPANEL_MODE_COM1 == 1
RADIOPANEL_MODE_COM2 == 2
RADIOPANEL_MODE_NAV1 == 3
RADIOPANEL_MODE_NAV2 == 4
RADIOPANEL_MODE_ADF == 5
RADIOPANEL_MODE_DME == 6
RADIOPANEL_MODE_XPDR == 7

MULTIPANEL_MODE_ALT == 1
MULTIPANEL_MODE_VS == 2
MULTIPANEL_MODE_IAS == 3
MULTIPANEL_MODE_HDG == 4
MULTIPANEL_MODE_CRS == 5

SAITEK_MAX_BTN == 9
SAITEK_MAX_FLAPS == 99
SAITEK_MIN_FLAPS == -99
SAITEK_MAX_PITCH_TRIM == 99
SAITEK_MIN_PITCH_TRIM == -99
SAITEK_MAX_KNOB == 99
SAITEK_MIN_KNOB == -99

\* the errno a failed hid_hw_raw_request is modelled to return
EIO == 5

(***************************************************************************)
(* C arithmetic on bytes and characters.                                   *)
(***************************************************************************)
Digits == <<"0", "1", "2", "3", "4", "5", "6", "7", "8", "9">>

\* isdigit(ch)
isdigit(ch) == \E d \in 1..10 : Digits[d] = ch

\* ch - '0' for a digit character
DigitVal(ch) == (CHOOSE d \in 1..10 : Digits[d] = ch) - 1

\* '0' + dig for 0 <= dig < 10
DigitChar(dig) == Digits[dig + 1]

\* CHECK(byte & mask) for a one-bit mask
CHECK(byte, mask) == IF (byte \div mask) % 2 = 1 THEN 1 ELSE 0

\* a + b in the place of a | b
BitOr_plus(a, b) == a + b

RECURSIVE BitOr(_, _)
\* a | b on bytes
BitOr(a, b) ==
    IF a = 0 THEN b
    ELSE IF b = 0 THEN a
    ELSE (IF a % 2 = 1 \/ b % 2 = 1 THEN 1 ELSE 0) + 2 * BitOr(a \div 2, b \div 2)

\* &buf[off]: the buffer seen from offset off
Ptr(buf, off) == SubSeq(buf, off + 1, Len(buf))

(***************************************************************************)
(* Display codec.                                                          *)
(***************************************************************************)
RECURSIVE ParseRadiopanelLoop(_, _, _, _, _)
\* the while loop of saitek_parse_radiopanel_display
ParseRadiopanelLoop(display, buf, bufsize, digno, i) ==
    IF ~(digno < 5) THEN [display |-> display, digno |-> digno, i |-> i]
    ELSE
        LET ch == IF i < bufsize THEN buf[i + 1] ELSE " "
            i1 == IF i < bufsize THEN i + 1 ELSE i
        IN  IF ch = " " THEN
                ParseRadiopanelLoop([display EXCEPT ![digno + 1] = PANEL_DIGIT_NULL],
                                    buf, bufsize, digno + 1, i1)
            ELSE IF isdigit(ch) THEN
                ParseRadiopanelLoop([display EXCEPT ![digno + 1] = DigitVal(ch)],
                                    buf, bufsize, digno + 1, i1)
            ELSE IF ch = "." THEN
                IF digno = 0 THEN
                    ParseRadiopanelLoop(
                        [display EXCEPT ![1] = BitOr(PANEL_DIGIT_NULL, PANEL_DIGIT_DOT)],
                        buf, bufsize, 1, i1)
                ELSE
                    ParseRadiopanelLoop(
                        [display EXCEPT ![digno] = BitOr(@, PANEL_DIGIT_DOT)],
                        buf, bufsize, digno, i1)
            ELSE
                ParseRadiopanelLoop([display EXCEPT ![digno + 1] = PANEL_DIGIT_NULL],
                                    buf, bufsize, digno + 1, i1)

\* a parser that stops at the fifth digit without looking at the next character
saitek_parse_radiopanel_display_five(display, buf, bufsize) ==
    ParseRadiopanelLoop(display, buf, bufsize, 0, 0).display

\* a parser that takes a '.' anywhere after the fifth digit for its point
saitek_parse_radiopanel_display_laterdot(display, buf, bufsize) ==
    LET r == ParseRadiopanelLoop(display, buf, bufsize, 0, 0)
    IN  IF r.digno > 0 /\ \E j \in (r.i + 1)..bufsize : buf[j] = "."
        THEN [r.display EXCEPT ![r.digno] = BitOr(@, PANEL_DIGIT_DOT)]
        ELSE r.display

saitek_parse_radiopanel_display(display, buf, bufsize) ==
    LET r == ParseRadiopanelLoop(display, buf, bufsize, 0, 0)
    IN  IF r.i < bufsize /\ r.digno > 0 /\ buf[r.i + 1] = "."
        THEN [r.display EXCEPT ![r.digno] = BitOr(@, PANEL_DIGIT_DOT)]
        ELSE r.display

RECURSIVE ParseMultipanelLoop(_, _, _, _, _)
\* the while loop of saitek_parse_multipanel_display
ParseMultipanelLoop(display, buf, bufsize, digno, i) ==
    IF ~(digno < 5 /\ i < bufsize) THEN display
    ELSE
        LET ch == buf[i + 1]
            dig == IF ch = " " THEN PANEL_DIGIT_NULL
                   ELSE IF ch = "-" THEN PANEL_DIGIT_MINUS
                   ELSE IF isdigit(ch) THEN DigitVal(ch)
                   ELSE PANEL_DIGIT_NULL
        IN  ParseMultipanelLoop([display EXCEPT ![digno + 1] = dig],
                                buf, bufsize, digno + 1, i + 1)

\* a parser that takes '-' for one more character it does not know
saitek_parse_multipanel_display_nominus(display, buf, bufsize) ==
    [k \in 1..5 |->
        IF ParseMultipanelLoop(display, buf, bufsize, 0, 0)[k] = PANEL_DIGIT_MINUS
        THEN PANEL_DIGIT_NULL
        ELSE ParseMultipanelLoop(display, buf, bufsize, 0, 0)[k]]

saitek_parse_multipanel_display(display, buf, bufsize) ==
    ParseMultipanelLoop(display, buf, bufsize, 0, 0)

RECURSIVE FormatRadiopanelLoop(_, _, _, _)
\* the while loop of saitek_format_radiopanel_display; chno is Len(buf)
FormatRadiopanelLoop(buf, display, bufsize, i) ==
    IF ~(Len(buf) < bufsize /\ i < 5) THEN buf
    ELSE
        LET dig == display[i + 1] % 16
            digflag == (display[i + 1] \div 16) * 16
            ch == IF dig = PANEL_DIGIT_NULL THEN " "
                  ELSE IF 0 <= dig /\ dig < 10 THEN DigitChar(dig)
                  ELSE "?"
            buf1 == Append(buf, ch)
        IN  FormatRadiopanelLoop(
                IF digflag = PANEL_DIGIT_DOT THEN Append(buf1, ".") ELSE buf1,
                display, bufsize, i + 1)

\* the characters written to buf; the C function returns their number
saitek_format_radiopanel_display(display, bufsize) ==
    FormatRadiopanelLoop(<<>>, display, bufsize, 0)

RECURSIVE FormatMultipanelLoop(_, _, _, _)
\* the while loop of saitek_format_multipanel_display; chno is Len(buf)
FormatMultipanelLoop(buf, display, bufsize, i) ==
    IF ~(Len(buf) < bufsize /\ i < 5) THEN buf
    ELSE
        LET dig == display[i + 1]
            ch == IF dig = PANEL_DIGIT_NULL THEN " "
                  ELSE IF dig = PANEL_DIGIT_MINUS THEN "-"
                  ELSE IF 0 <= dig /\ dig < 10 THEN DigitChar(dig)
                  ELSE " "
        IN  FormatMultipanelLoop(Append(buf, ch), display, bufsize, i + 1)

\* a formatter that prints '?' for a byte that is no digit, minus or blank
saitek_format_multipanel_display_strict(display, bufsize) ==
    [k \in 1..5 |->
        IF display[k] = PANEL_DIGIT_NULL THEN " "
        ELSE IF display[k] = PANEL_DIGIT_MINUS THEN "-"
        ELSE IF 0 <= display[k] /\ display[k] < 10 THEN DigitChar(display[k])
        ELSE "?"]

saitek_format_multipanel_display(display, bufsize) ==
    FormatMultipanelLoop(<<>>, display, bufsize, 0)

(***************************************************************************)
(* snprintf conversions.                                                   *)
(***************************************************************************)
\* n copies of the character ch
Fill(ch, n) == [k \in 1..n |-> ch]

RECURSIVE NatDigits(_)
\* the decimal digits of n >= 0
NatDigits(n) ==
    IF n < 10 THEN <<DigitChar(n)>>
    ELSE Append(NatDigits(n \div 10), DigitChar(n % 10))

\* a conversion that does not pad to the field width
FmtD_unpadded(n, width, prec, plus) ==
    (IF n < 0 THEN <<"-">> ELSE IF plus THEN <<"+">> ELSE <<>>)
    \o (IF n > -10 /\ n < 10 /\ prec > 1 THEN <<"0">> ELSE <<>>)
    \o NatDigits(IF n < 0 THEN -n ELSE n)

\* %<width>.<prec>d of n, with the + flag when plus
FmtD(n, width, prec, plus) ==
    LET digs == NatDigits(IF n < 0 THEN -n ELSE n)
        zeros == IF Len(digs) < prec THEN Fill("0", prec - Len(digs)) ELSE <<>>
        sign == IF n < 0 THEN <<"-">> ELSE IF plus THEN <<"+">> ELSE <<>>
        body == sign \o zeros \o digs
    IN  IF Len(body) < width THEN Fill(" ", width - Len(body)) \o body ELSE body

\* %<width>.<prec>s of s, with the - flag when left
FmtS(s, width, prec, left) ==
    LET body == IF Len(s) > prec THEN SubSeq(s, 1, prec) ELSE s
        pad == IF Len(body) < width THEN Fill(" ", width - Len(body)) ELSE <<>>
    IN  IF left THEN body \o pad ELSE pad \o body

SWITCH(x) == IF x # 0 THEN <<"O", "N", " ">> ELSE <<"O", "F", "F">>

MULTIPANEL_MODE(x) ==
    IF x = MULTIPANEL_MODE_ALT THEN <<"A", "L", "T">>
    ELSE IF x = MULTIPANEL_MODE_VS THEN <<"V", "S", " ">>
    ELSE IF x = MULTIPANEL_MODE_IAS THEN <<"I", "A", "S">>
    ELSE IF x = MULTIPANEL_MODE_HDG THEN <<"H", "D", "G">>
    ELSE IF x = MULTIPANEL_MODE_CRS THEN <<"C", "R", "S">>
    ELSE <<" ", " ", " ">>

RADIOPANEL_MODE(x) ==
    IF x = RADIOPANEL_MODE_COM1 THEN <<"C", "O", "M", "1">>
    ELSE IF x = RADIOPANEL_MODE_COM2 THEN <<"C", "O", "M", "2">>
    ELSE IF x = RADIOPANEL_MODE_NAV1 THEN <<"N", "A", "V", "1">>
    ELSE IF x = RADIOPANEL_MODE_NAV2 THEN <<"N", "A", "V", "2">>
    ELSE IF x = RADIOPANEL_MODE_ADF THEN <<"A", "D", "F", " ">>
    ELSE IF x = RADIOPANEL_MODE_DME THEN <<"D", "M", "E", " ">>
    ELSE IF x = RADIOPANEL_MODE_XPDR THEN <<"X", "P", "D", "R">>
    ELSE <<" ", " ", " ">>

(***************************************************************************)
(* Text serializer, read path.                                             *)
(***************************************************************************)
\* "1" or "0" for a bitfield
Bin(x) == IF x # 0 THEN "1" ELSE "0"

\* the string saitek_buf_format_radiopanel prints into buf (m is parent->mode)
RadiopanelText(rp, m) ==
    LET hrdisp0l == saitek_format_radiopanel_display(rp.display0l, 10)
        hrdisp0r == saitek_format_radiopanel_display(rp.display0r, 10)
        hrdisp1l == saitek_format_radiopanel_display(rp.display1l, 10)
        hrdisp1r == saitek_format_radiopanel_display(rp.display1r, 10)
    IN
        <<"[", "R", "P", "]", " ">> \o FmtS(hrdisp0l, 10, 10, TRUE) \o <<" ">> \o
        FmtS(hrdisp0r, 10, 10, TRUE) \o <<" ">> \o FmtS(hrdisp1l, 10, 10, TRUE) \o
        <<" ">> \o FmtS(hrdisp1r, 10, 10, TRUE) \o <<" ">> \o <<m>> \o <<" ">> \o
        <<Bin(rp.actstby0)>> \o <<" ">> \o
        FmtD(rp.aactstby0, 1, 1, FALSE) \o <<" ">> \o
        FmtD(rp.innerknob0, 3, 2, FALSE) \o <<" ">> \o
        FmtD(rp.outerknob0, 3, 2, FALSE) \o <<" ">> \o
        FmtS(RADIOPANEL_MODE(rp.mode0), 4, 4, FALSE) \o <<" ">> \o
        <<Bin(rp.actstby1)>> \o <<" ">> \o
        FmtD(rp.aactstby1, 1, 1, FALSE) \o <<" ">> \o
        FmtD(rp.innerknob1, 3, 2, FALSE) \o <<" ">> \o
        FmtD(rp.outerknob1, 3, 2, FALSE) \o <<" ">> \o
        FmtS(RADIOPANEL_MODE(rp.mode1), 4, 4, FALSE)

\* a reset that does not look at the mode flag
RadiopanelReset_always(rp, m) ==
    [rp EXCEPT !.aactstby0 = 0, !.aactstby1 = 0, !.innerknob0 = 0,
               !.outerknob0 = 0, !.innerknob1 = 0, !.outerknob1 = 0]

\* the switch on parent->mode that ends saitek_buf_format_radiopanel
RadiopanelReset(rp, m) ==
    IF m = "R"
    THEN [rp EXCEPT !.aactstby0 = 0, !.aactstby1 = 0, !.innerknob0 = 0,
                    !.outerknob0 = 0, !.innerknob1 = 0, !.outerknob1 = 0]
    ELSE rp

\* the string saitek_buf_format_multipanel prints into buf (m is parent->mode)
MultipanelText(mp, m) ==
    LET hrdisp0 == saitek_format_multipanel_display(mp.display0, 5)
        hrdisp1 == saitek_format_multipanel_display(mp.display1, 5)
        leds == <<Bin(mp.led_hdg), Bin(mp.led_nav), Bin(mp.led_ias), Bin(mp.led_alt),
                  Bin(mp.led_vs), Bin(mp.led_apr), Bin(mp.led_rev), Bin(mp.led_ap)>>
        btns == <<Bin(mp.hdg), Bin(mp.nav), Bin(mp.ias), Bin(mp.alt),
                  Bin(mp.vs), Bin(mp.apr), Bin(mp.rev), Bin(mp.ap)>>
    IN
        <<"[", "M", "P", "]", " ">> \o FmtS(hrdisp0, 5, 5, FALSE) \o <<" ">> \o
        FmtS(hrdisp1, 5, 5, FALSE) \o <<" ">> \o FmtS(leds, 8, 8, FALSE) \o <<" ">> \o
        <<m>> \o <<" ">> \o FmtS(btns, 8, 8, FALSE) \o <<" ">> \o
        <<Bin(mp.auto_throttle)>> \o <<" ">> \o
        FmtD(mp.flaps, 3, 2, TRUE) \o <<" ">> \o FmtD(mp.pitch_trim, 3, 2, TRUE) \o
        <<" ">> \o FmtD(mp.knob, 3, 2, TRUE) \o <<" ">> \o
        FmtD(mp.ahdg, 1, 1, FALSE) \o <<" ">> \o FmtD(mp.anav, 1, 1, FALSE) \o
        <<" ">> \o FmtD(mp.aias, 1, 1, FALSE) \o <<" ">> \o
        FmtD(mp.aalt, 1, 1, FALSE) \o <<" ">> \o FmtD(mp.avs, 1, 1, FALSE) \o
        <<" ">> \o FmtD(mp.aapr, 1, 1, FALSE) \o <<" ">> \o
        FmtD(mp.arev, 1, 1, FALSE) \o <<" ">> \o FmtD(mp.aap, 1, 1, FALSE) \o
        <<" ">> \o MULTIPANEL_MODE(mp.mode) \o
        <<"\n", "D", "E", "V", "I", "C", "E", " ", "T", "Y", "P", "E", ":", " ", "M", "U", "L", "T", "I", " ", "P", "A", "N", "E", "L", "\n", "M", "O", "D", "E", ":">> \o
        MULTIPANEL_MODE(mp.mode) \o <<"\n", "H", "D", "G", ":">> \o SWITCH(mp.hdg) \o
        <<" ", "(">> \o FmtD(mp.ahdg, 1, 1, FALSE) \o
        <<")", "\n", "N", "A", "V", ":">> \o SWITCH(mp.nav) \o <<" ", "(">> \o
        FmtD(mp.anav, 1, 1, FALSE) \o <<")", "\n", "I", "A", "S", ":">> \o
        SWITCH(mp.ias) \o <<" ", "(">> \o FmtD(mp.aias, 1, 1, FALSE) \o
        <<")", "\n", "A", "L", "T", ":">> \o SWITCH(mp.alt) \o <<" ", "(">> \o
        FmtD(mp.aalt, 1, 1, FALSE) \o <<")", "\n", "V", "S", ":">> \o SWITCH(mp.vs) \o
        <<" ", "(">> \o FmtD(mp.avs, 1, 1, FALSE) \o
        <<")", "\n", "A", "P", "R", ":">> \o SWITCH(mp.apr) \o <<" ", "(">> \o
        FmtD(mp.aapr, 1, 1, FALSE) \o <<")", "\n", "R", "E", "V", ":">> \o
        SWITCH(mp.rev) \o <<" ", "(">> \o FmtD(mp.arev, 1, 1, FALSE) \o
        <<")", "\n", "A", "P", ":">> \o SWITCH(mp.ap) \o <<" ", "(">> \o
        FmtD(mp.aap, 1, 1, FALSE) \o
        <<")", "\n", "A", "U", "T", "O", "-", "T", "H", "R", "O", "T", "T", "L", "E", ":">> \o
        SWITCH(mp.auto_throttle) \o <<"\n", "F", "L", "A", "P", "S", ":">> \o
        FmtD(mp.flaps, 3, 1, FALSE) \o
        <<"\n", "P", "I", "T", "C", "H", "-", "T", "R", "I", "M", ":">> \o
        FmtD(mp.pitch_trim, 3, 1, FALSE) \o <<"\n", "K", "N", "O", "B", ":">> \o
        FmtD(mp.knob, 3, 1, FALSE)

\* a reset that zeroes the accumulators and forgets the press counters
MultipanelReset_encoders(mp, m) ==
    IF m = "R"
    THEN [mp EXCEPT !.flaps = 0, !.pitch_trim = 0, !.knob = 0]
    ELSE mp

\* a reset that also forgets which buttons and encoder signals were active
MultipanelReset_forgets(mp, m) ==
    IF m = "R"
    THEN [mp EXCEPT !.flaps = 0, !.pitch_trim = 0, !.knob = 0, !.ahdg = 0,
                    !.anav = 0, !.aias = 0, !.aalt = 0, !.avs = 0, !.aapr = 0,
                    !.arev = 0, !.aap = 0, !.hdg = 0, !.nav = 0, !.ias = 0,
                    !.alt = 0, !.vs = 0, !.apr = 0, !.rev = 0, !.ap = 0,
                    !.flaps_up = 0, !.flaps_down = 0, !.pitch_trim_up = 0,
                    !.pitch_trim_down = 0, !.knob_right = 0, !.knob_left = 0]
    ELSE mp

\* the switch on parent->mode that ends saitek_buf_format_multipanel
MultipanelReset(mp, m) ==
    IF m = "R"
    THEN [mp EXCEPT !.flaps = 0, !.pitch_trim = 0, !.knob = 0, !.ahdg = 0,
                    !.anav = 0, !.aias = 0, !.aalt = 0, !.avs = 0, !.aapr = 0,
                    !.arev = 0, !.aap = 0]
    ELSE mp

(***************************************************************************)
(* Report decoders.  data is the report buffer, data[k + 1] its byte k.     *)
(***************************************************************************)
\* a button macro that never clears the remembered flag
SAITEK_ADJUST_COUNTED_BTN_held(p, data, btn, abtn, byteno, mask) ==
    IF CHECK(data[byteno + 1], mask) # 0 /\ p[btn] = 0 THEN
        [p EXCEPT ![abtn] = IF @ < SAITEK_MAX_BTN THEN @ + 1 ELSE @,
                  ![btn] = 1]
    ELSE p

\* a button macro that counts the level of the bit, not its rising edge
SAITEK_ADJUST_COUNTED_BTN_level(p, data, btn, abtn, byteno, mask) ==
    IF CHECK(data[byteno + 1], mask) # 0 THEN
        [p EXCEPT ![abtn] = IF @ < SAITEK_MAX_BTN THEN @ + 1 ELSE @,
                  ![btn] = 1]
    ELSE [p EXCEPT ![btn] = 0]

\* SAITEK_ADJUST_COUNTED_BTN(btn, byteno, mask) on panel p; abtn names a##btn
SAITEK_ADJUST_COUNTED_BTN(p, data, btn, abtn, byteno, mask) ==
    IF CHECK(data[byteno + 1], mask) # 0 THEN
        IF p[btn] = 0 THEN
            [p EXCEPT ![abtn] = IF @ < SAITEK_MAX_BTN THEN @ + 1 ELSE @,
                      ![btn] = 1]
        ELSE p
    ELSE [p EXCEPT ![btn] = 0]

\* an encoder step up that does not compare the counter with valmax
EncdrUp_unclamped(p, data, btn, up, bytenoup, maskup, valmax) ==
    IF CHECK(data[bytenoup + 1], maskup) # 0 THEN
        IF p[up] = 0 THEN [p EXCEPT ![btn] = @ + 1, ![up] = 1]
        ELSE p
    ELSE [p EXCEPT ![up] = 0]

\* an encoder step up without the else branch that clears the flag
EncdrUp_sticky(p, data, btn, up, bytenoup, maskup, valmax) ==
    IF CHECK(data[bytenoup + 1], maskup) # 0 /\ p[up] = 0
    THEN [p EXCEPT ![btn] = IF @ < valmax THEN @ + 1 ELSE @, ![up] = 1]
    ELSE p

\* the first if of SAITEK_ADJUST_COUNTED_ENCDR; up names btn##_##up
EncdrUp(p, data, btn, up, bytenoup, maskup, valmax) ==
    IF CHECK(data[bytenoup + 1], maskup) # 0 THEN
        IF p[up] = 0 THEN
            [p EXCEPT ![btn] = IF @ < valmax THEN @ + 1 ELSE @,
                      ![up] = 1]
        ELSE p
    ELSE [p EXCEPT ![up] = 0]

\* a step down that follows the level of the bit, not its rising edge
EncdrDown_level(p, data, btn, down, bytenodown, maskdown, valmin) ==
    IF CHECK(data[bytenodown + 1], maskdown) # 0 THEN
        [p EXCEPT ![btn] = IF @ > valmin THEN @ - 1 ELSE @, ![down] = 1]
    ELSE [p EXCEPT ![down] = 0]

\* the second if of SAITEK_ADJUST_COUNTED_ENCDR; down names btn##_##down.
\* The inner if has no braces: the flag is set whenever the bit is set.
EncdrDown(p, data, btn, down, bytenodown, maskdown, valmin) ==
    IF CHECK(data[bytenodown + 1], maskdown) # 0 THEN
        [p EXCEPT ![btn] = IF p[down] = 0 /\ @ > valmin THEN @ - 1 ELSE @,
                  ![down] = 1]
    ELSE [p EXCEPT ![down] = 0]

\* an encoder macro that steps down before it steps up
SAITEK_ADJUST_COUNTED_ENCDR_downfirst(p, data, btn, up, bytenoup, maskup, valmax, down, bytenodown, maskdown, valmin) ==
    EncdrUp(EncdrDown(p, data, btn, down, bytenodown, maskdown, valmin),
            data, btn, up, bytenoup, maskup, valmax)

\* SAITEK_ADJUST_COUNTED_ENCDR(btn,up,bytenoup,maskup,valmax,down,bytenodown,maskdown,valmin)
SAITEK_ADJUST_COUNTED_ENCDR(p, data, btn, up, bytenoup, maskup, valmax, down, bytenodown, maskdown, valmin) ==
    EncdrDown(EncdrUp(p, data, btn, up, bytenoup, maskup, valmax),
              data, btn, down, bytenodown, maskdown, valmin)

\* a chain that tests the VS bit before the ALT bit
MultipanelModeOf_vsfirst(data) ==
    IF CHECK(data[1], 2) # 0 THEN MULTIPANEL_MODE_VS
    ELSE IF CHECK(data[1], 1) # 0 THEN MULTIPANEL_MODE_ALT
    ELSE IF CHECK(data[1], 4) # 0 THEN MULTIPANEL_MODE_IAS
    ELSE IF CHECK(data[1], 8) # 0 THEN MULTIPANEL_MODE_HDG
    ELSE IF CHECK(data[1], 16) # 0 THEN MULTIPANEL_MODE_CRS
    ELSE 0

\* the if/else chain that sets multipanel->mode
MultipanelModeOf(data) ==
    IF CHECK(data[1], 1) # 0 THEN MULTIPANEL_MODE_ALT
    ELSE IF CHECK(data[1], 2) # 0 THEN MULTIPANEL_MODE_VS
    ELSE IF CHECK(data[1], 4) # 0 THEN MULTIPANEL_MODE_IAS
    ELSE IF CHECK(data[1], 8) # 0 THEN MULTIPANEL_MODE_HDG
    ELSE IF CHECK(data[1], 16) # 0 THEN MULTIPANEL_MODE_CRS
    ELSE 0

\* the statements of saitek_proflight_multipanel_raw_event after its two checks
MultipanelDecode(mp, data) ==
    LET p1 == SAITEK_ADJUST_COUNTED_BTN(mp, data, "hdg", "ahdg", 1, 1)
        p2 == SAITEK_ADJUST_COUNTED_BTN(p1, data, "nav", "anav", 1, 2)
        p3 == SAITEK_ADJUST_COUNTED_BTN(p2, data, "ias", "aias", 1, 4)
        p4 == SAITEK_ADJUST_COUNTED_BTN(p3, data, "alt", "aalt", 1, 8)
        p5 == SAITEK_ADJUST_COUNTED_BTN(p4, data, "vs", "avs", 1, 16)
        p6 == SAITEK_ADJUST_COUNTED_BTN(p5, data, "apr", "aapr", 1, 32)
        p7 == SAITEK_ADJUST_COUNTED_BTN(p6, data, "rev", "arev", 1, 64)
        p8 == SAITEK_ADJUST_COUNTED_BTN(p7, data, "ap", "aap", 0, 128)
        p9 == SAITEK_ADJUST_COUNTED_ENCDR(p8, data, "flaps",
                  "flaps_up", 2, 1, SAITEK_MAX_FLAPS,
                  "flaps_down", 2, 2, SAITEK_MIN_FLAPS)
        p10 == [p9 EXCEPT !.auto_throttle = CHECK(data[2], 128)]
        p11 == SAITEK_ADJUST_COUNTED_ENCDR(p10, data, "pitch_trim",
                  "pitch_trim_up", 2, 8, SAITEK_MAX_PITCH_TRIM,
                  "pitch_trim_down", 2, 4, SAITEK_MIN_PITCH_TRIM)
        p12 == SAITEK_ADJUST_COUNTED_ENCDR(p11, data, "knob",
                  "knob_right", 0, 32, SAITEK_MAX_KNOB,
                  "knob_left", 0, 64, SAITEK_MIN_KNOB)
    IN  [p12 EXCEPT !.mode = MultipanelModeOf(data)]

\* a handler that looks at the size before the report id and type
saitek_proflight_multipanel_raw_event_sizefirst(mp, rep) ==
    IF rep.size < 3 THEN [ret |-> -1, panel |-> mp]
    ELSE IF rep.id # 0 \/ rep.type # 0 THEN [ret |-> 0, panel |-> mp]
    ELSE [ret |-> 1, panel |-> MultipanelDecode(mp, rep.data)]

\* [ret, panel]: the return value and the multipanel state it leaves
saitek_proflight_multipanel_raw_event(mp, rep) ==
    IF rep.id # 0 \/ rep.type # 0 THEN [ret |-> 0, panel |-> mp]
    ELSE IF rep.size < 3 THEN [ret |-> -1, panel |-> mp]
    ELSE [ret |-> 1, panel |-> MultipanelDecode(mp, rep.data)]

\* a chain for mode0 that starts with the top bit of byte 0
RadiopanelMode0Of_topbit(data) ==
    IF CHECK(data[1], 128) # 0 THEN RADIOPANEL_MODE_COM1
    ELSE IF CHECK(data[1], 1) # 0 THEN RADIOPANEL_MODE_COM1
    ELSE IF CHECK(data[1], 2) # 0 THEN RADIOPANEL_MODE_COM2
    ELSE IF CHECK(data[1], 4) # 0 THEN RADIOPANEL_MODE_NAV1
    ELSE IF CHECK(data[1], 8) # 0 THEN RADIOPANEL_MODE_NAV2
    ELSE IF CHECK(data[1], 16) # 0 THEN RADIOPANEL_MODE_ADF
    ELSE IF CHECK(data[1], 32) # 0 THEN RADIOPANEL_MODE_DME
    ELSE IF CHECK(data[1], 64) # 0 THEN RADIOPANEL_MODE_XPDR
    ELSE 0

\* the first if/else chain of the radiopanel decoder, which sets mode0
RadiopanelMode0Of(data) ==
    IF CHECK(data[1], 1) # 0 THEN RADIOPANEL_MODE_COM1
    ELSE IF CHECK(data[1], 2) # 0 THEN RADIOPANEL_MODE_COM2
    ELSE IF CHECK(data[1], 4) # 0 THEN RADIOPANEL_MODE_NAV1
    ELSE IF CHECK(data[1], 8) # 0 THEN RADIOPANEL_MODE_NAV2
    ELSE IF CHECK(data[1], 16) # 0 THEN RADIOPANEL_MODE_ADF
    ELSE IF CHECK(data[1], 32) # 0 THEN RADIOPANEL_MODE_DME
    ELSE IF CHECK(data[1], 64) # 0 THEN RADIOPANEL_MODE_XPDR
    ELSE 0

\* the second if/else chain of the radiopanel decoder, which sets mode1
RadiopanelMode1Of(data) ==
    IF CHECK(data[1], 128) # 0 THEN RADIOPANEL_MODE_COM1
    ELSE IF CHECK(data[2], 1) # 0 THEN RADIOPANEL_MODE_COM2
    ELSE IF CHECK(data[2], 2) # 0 THEN RADIOPANEL_MODE_NAV1
    ELSE IF CHECK(data[2], 4) # 0 THEN RADIOPANEL_MODE_NAV2
    ELSE IF CHECK(data[2], 8) # 0 THEN RADIOPANEL_MODE_ADF
    ELSE IF CHECK(data[2], 16) # 0 THEN RADIOPANEL_MODE_DME
    ELSE IF CHECK(data[2], 32) # 0 THEN RADIOPANEL_MODE_XPDR
    ELSE 0

\* the statements of saitek_proflight_radiopanel_raw_event after its two checks
RadiopanelDecode(rp, data) ==
    LET p1 == SAITEK_ADJUST_COUNTED_BTN(rp, data, "actstby0", "aactstby0", 1, 64)
        p2 == SAITEK_ADJUST_COUNTED_BTN(p1, data, "actstby1", "aactstby1", 1, 128)
        p3 == SAITEK_ADJUST_COUNTED_ENCDR(p2, data, "innerknob0",
                  "innerknob0_right", 2, 1, SAITEK_MAX_KNOB,
                  "innerknob0_left", 2, 2, SAITEK_MIN_KNOB)
        p4 == SAITEK_ADJUST_COUNTED_ENCDR(p3, data, "outerknob0",
                  "outerknob0_right", 2, 4, SAITEK_MAX_KNOB,
                  "outerknob0_left", 2, 8, SAITEK_MIN_KNOB)
        p5 == SAITEK_ADJUST_COUNTED_ENCDR(p4, data, "innerknob1",
                  "innerknob1_right", 2, 16, SAITEK_MAX_KNOB,
                  "innerknob1_left", 2, 32, SAITEK_MIN_KNOB)
        p6 == SAITEK_ADJUST_COUNTED_ENCDR(p5, data, "outerknob1",
                  "outerknob1_right", 2, 64, SAITEK_MAX_KNOB,
                  "outerknob1_left", 2, 128, SAITEK_MIN_KNOB)
    IN  [p6 EXCEPT !.mode0 = RadiopanelMode0Of(data),
                   !.mode1 = RadiopanelMode1Of(data)]

\* [ret, panel]: the return value and the radiopanel state it leaves
saitek_proflight_radiopanel_raw_event(rp, rep) ==
    IF rep.id # 0 \/ rep.type # 0 THEN [ret |-> 0, panel |-> rp]
    ELSE IF rep.size < 3 THEN [ret |-> -1, panel |-> rp]
    ELSE [ret |-> 1, panel |-> RadiopanelDecode(rp, rep.data)]

(***************************************************************************)
(* Text serializer, write path, and the feature report builder.            *)
(***************************************************************************)
\* a parser that takes the last character of the line for the mode flag
saitek_buf_parse_radiopanel_lastchar(rp, m, buf, count) ==
    IF count < 45 THEN [panel |-> rp, mode |-> m]
    ELSE
        [panel |->
            [rp EXCEPT
                !.display0l = saitek_parse_radiopanel_display(@, Ptr(buf, 0), 10),
                !.display0r = saitek_parse_radiopanel_display(@, Ptr(buf, 11), 10),
                !.display1l = saitek_parse_radiopanel_display(@, Ptr(buf, 22), 10),
                !.display1r = saitek_parse_radiopanel_display(@, Ptr(buf, 33), 10)],
         mode |-> IF buf[count] = "N" \/ buf[count] = "R" THEN buf[count] ELSE m]

\* a parser that takes the two displays of the second stack from each
\* other's field
saitek_buf_parse_radiopanel_swapped(rp, m, buf, count) ==
    IF count < 45 THEN [panel |-> rp, mode |-> m]
    ELSE
        [panel |->
            [rp EXCEPT
                !.display0l = saitek_parse_radiopanel_display(@, Ptr(buf, 0), 10),
                !.display0r = saitek_parse_radiopanel_display(@, Ptr(buf, 11), 10),
                !.display1l = saitek_parse_radiopanel_display(@, Ptr(buf, 33), 10),
                !.display1r = saitek_parse_radiopanel_display(@, Ptr(buf, 22), 10)],
         mode |-> IF buf[45] = "N" \/ buf[45] = "R" THEN buf[45] ELSE m]

\* [panel, mode]: the radiopanel and parent->mode saitek_buf_parse_radiopanel leaves
saitek_buf_parse_radiopanel(rp, m, buf, count) ==
    IF count < 45 THEN [panel |-> rp, mode |-> m]
    ELSE
        [panel |->
            [rp EXCEPT
                !.display0l = saitek_parse_radiopanel_display(@, Ptr(buf, 0), 10),
                !.display0r = saitek_parse_radiopanel_display(@, Ptr(buf, 11), 10),
                !.display1l = saitek_parse_radiopanel_display(@, Ptr(buf, 22), 10),
                !.display1r = saitek_parse_radiopanel_display(@, Ptr(buf, 33), 10)],
         mode |-> IF buf[45] = "N" \/ buf[45] = "R" THEN buf[45] ELSE m]

\* a macro that switches the light off for every character but '1'
SET_IF_CHAR_BIN_off(variable, value) == IF value = "1" THEN 1 ELSE 0

\* SET_IF_CHAR_BIN(variable, value)
SET_IF_CHAR_BIN(variable, value) ==
    IF value = "1" THEN 1 ELSE IF value = "0" THEN 0 ELSE variable

\* a parser that takes 21 characters for a full line
saitek_buf_parse_multipanel_short(mp, m, buf, count) ==
    IF count < 21 THEN [panel |-> mp, mode |-> m]
    ELSE
        [panel |->
            [mp EXCEPT
                !.display0 = saitek_parse_multipanel_display(@, Ptr(buf, 0), 5),
                !.display1 = saitek_parse_multipanel_display(@, Ptr(buf, 6), 5)],
         mode |-> m]

\* a parser that stores the mode character whatever it is
saitek_buf_parse_multipanel_anymode(mp, m, buf, count) ==
    IF count < 22 THEN [panel |-> mp, mode |-> m]
    ELSE
        [panel |->
            [mp EXCEPT
                !.display0 = saitek_parse_multipanel_display(@, Ptr(buf, 0), 5),
                !.display1 = saitek_parse_multipanel_display(@, Ptr(buf, 6), 5),
                !.led_hdg = SET_IF_CHAR_BIN(@, buf[13]),
                !.led_nav = SET_IF_CHAR_BIN(@, buf[14]),
                !.led_ias = SET_IF_CHAR_BIN(@, buf[15]),
                !.led_alt = SET_IF_CHAR_BIN(@, buf[16]),
                !.led_vs = SET_IF_CHAR_BIN(@, buf[17]),
                !.led_apr = SET_IF_CHAR_BIN(@, buf[18]),
                !.led_rev = SET_IF_CHAR_BIN(@, buf[19]),
                !.led_ap = SET_IF_CHAR_BIN(@, buf[20])],
         mode |-> buf[22]]

\* a parser that also clears the press counters and the accumulators
saitek_buf_parse_multipanel_counters(mp, m, buf, count) ==
    IF count < 22 THEN [panel |-> mp, mode |-> m]
    ELSE
        [panel |->
            [mp EXCEPT
                !.display0 = saitek_parse_multipanel_display(@, Ptr(buf, 0), 5),
                !.display1 = saitek_parse_multipanel_display(@, Ptr(buf, 6), 5),
                !.led_hdg = SET_IF_CHAR_BIN(@, buf[13]),
                !.led_nav = SET_IF_CHAR_BIN(@, buf[14]),
                !.led_ias = SET_IF_CHAR_BIN(@, buf[15]),
                !.led_alt = SET_IF_CHAR_BIN(@, buf[16]),
                !.led_vs = SET_IF_CHAR_BIN(@, buf[17]),
                !.led_apr = SET_IF_CHAR_BIN(@, buf[18]),
                !.led_rev = SET_IF_CHAR_BIN(@, buf[19]),
                !.led_ap = SET_IF_CHAR_BIN(@, buf[20]),
                !.flaps = 0, !.pitch_trim = 0, !.knob = 0, !.ahdg = 0,
                !.anav = 0, !.aias = 0, !.aalt = 0, !.avs = 0, !.aapr = 0,
                !.arev = 0, !.aap = 0],
         mode |-> IF buf[22] = "N" \/ buf[22] = "R" THEN buf[22] ELSE m]

\* [panel, mode]: the multipanel and parent->mode saitek_buf_parse_multipanel leaves
saitek_buf_parse_multipanel(mp, m, buf, count) ==
    IF count < 22 THEN [panel |-> mp, mode |-> m]
    ELSE
        [panel |->
            [mp EXCEPT
                !.display0 = saitek_parse_multipanel_display(@, Ptr(buf, 0), 5),
                !.display1 = saitek_parse_multipanel_display(@, Ptr(buf, 6), 5),
                !.led_hdg = SET_IF_CHAR_BIN(@, buf[13]),
                !.led_nav = SET_IF_CHAR_BIN(@, buf[14]),
                !.led_ias = SET_IF_CHAR_BIN(@, buf[15]),
                !.led_alt = SET_IF_CHAR_BIN(@, buf[16]),
                !.led_vs = SET_IF_CHAR_BIN(@, buf[17]),
                !.led_apr = SET_IF_CHAR_BIN(@, buf[18]),
                !.led_rev = SET_IF_CHAR_BIN(@, buf[19]),
                !.led_ap = SET_IF_CHAR_BIN(@, buf[20])],
         mode |-> IF buf[22] = "N" \/ buf[22] = "R" THEN buf[22] ELSE m]

\* the bytes saitek_set_radiopanel stores in dmabuf[0..22]
RadiopanelReport(rp) ==
    <<0>> \o rp.display0l \o rp.display0r \o rp.display1l \o rp.display1r \o <<0, 0>>

\* a report whose light byte has the bits of AP and HDG exchanged
MultipanelReport_aphdg(mp) ==
    <<0>> \o mp.display0 \o mp.display1 \o
    << (IF mp.led_hdg # 0 THEN MULTIPANEL_LIGHT_AP ELSE 0)
       + (IF mp.led_nav # 0 THEN MULTIPANEL_LIGHT_NAV ELSE 0)
       + (IF mp.led_ias # 0 THEN MULTIPANEL_LIGHT_IAS ELSE 0)
       + (IF mp.led_alt # 0 THEN MULTIPANEL_LIGHT_ALT ELSE 0)
       + (IF mp.led_vs # 0 THEN MULTIPANEL_LIGHT_VS ELSE 0)
       + (IF mp.led_apr # 0 THEN MULTIPANEL_LIGHT_APR ELSE 0)
       + (IF mp.led_rev # 0 THEN MULTIPANEL_LIGHT_REV ELSE 0)
       + (IF mp.led_ap # 0 THEN MULTIPANEL_LIGHT_HDG ELSE 0),
       0 >>

\* the bytes saitek_set_multipanel stores in dmabuf[0..12]
MultipanelReport(mp) ==
    <<0>> \o mp.display0 \o mp.display1 \o
    << (IF mp.led_hdg # 0 THEN MULTIPANEL_LIGHT_HDG ELSE 0)
       + (IF mp.led_nav # 0 THEN MULTIPANEL_LIGHT_NAV ELSE 0)
       + (IF mp.led_ias # 0 THEN MULTIPANEL_LIGHT_IAS ELSE 0)
       + (IF mp.led_alt # 0 THEN MULTIPANEL_LIGHT_ALT ELSE 0)
       + (IF mp.led_vs # 0 THEN MULTIPANEL_LIGHT_VS ELSE 0)
       + (IF mp.led_apr # 0 THEN MULTIPANEL_LIGHT_APR ELSE 0)
       + (IF mp.led_rev # 0 THEN MULTIPANEL_LIGHT_REV ELSE 0)
       + (IF mp.led_ap # 0 THEN MULTIPANEL_LIGHT_AP ELSE 0),
       0 >>

(***************************************************************************)
(* The session and the inputs of the model.                                *)
(***************************************************************************)
Readers == 1..NumReaders

\* devm_kzalloc of struct proflight_multipanel: every field zero
InitMultipanel ==
    [hdg |-> 0, nav |-> 0, ias |-> 0, alt |-> 0, vs |-> 0, apr |-> 0, rev |-> 0,
     ap |-> 0, flaps_up |-> 0, flaps_down |-> 0, auto_throttle |-> 0,
     pitch_trim_up |-> 0, pitch_trim_down |-> 0, knob_right |-> 0, knob_left |-> 0,
     mode |-> 0, ahdg |-> 0, anav |-> 0, aias |-> 0, aalt |-> 0, avs |-> 0,
     aapr |-> 0, arev |-> 0, aap |-> 0, flaps |-> 0, pitch_trim |-> 0, knob |-> 0,
     display0 |-> <<0, 0, 0, 0, 0>>, display1 |-> <<0, 0, 0, 0, 0>>,
     led_hdg |-> 0, led_nav |-> 0, led_ias |-> 0, led_alt |-> 0, led_vs |-> 0,
     led_apr |-> 0, led_rev |-> 0, led_ap |-> 0]

\* devm_kzalloc of struct proflight_radiopanel: every field zero
InitRadiopanel ==
    [actstby0 |-> 0, actstby1 |-> 0, innerknob0_right |-> 0, innerknob0_left |-> 0,
     outerknob0_right |-> 0, outerknob0_left |-> 0, innerknob1_right |-> 0,
     innerknob1_left |-> 0, outerknob1_right |-> 0, outerknob1_left |-> 0,
     mode0 |-> 0, mode1 |-> 0, aactstby0 |-> 0, aactstby1 |-> 0,
     innerknob0 |-> 0, outerknob0 |-> 0, innerknob1 |-> 0, outerknob1 |-> 0,
     display0l |-> <<0, 0, 0, 0, 0>>, display0r |-> <<0, 0, 0, 0, 0>>,
     display1l |-> <<0, 0, 0, 0, 0>>, display1r |-> <<0, 0, 0, 0, 0>>]

\* nothing recorded about accepted reports
NoneSeen == [from |-> <<0, 0>>, reports |-> <<>>]

NoReport == [id |-> 0, type |-> 0, data |-> <<>>, size |-> 0]
NoWrite == [buf |-> <<>>, count |-> 0]
Write(buf) == [buf |-> buf, count |-> Len(buf)]

\* report id and type pairs delivered by the HID core
ReportHeaders == {<<0, 0>>, <<1, 0>>, <<0, 1>>}

\* report buffers delivered to a multipanel: all released; every button, flaps up,
\* pitch trim down, knob both ways, auto throttle, ALT and VS; CRS alone
MultipanelData == {<<0, 0, 0>>, <<227, 255, 5>>, <<16, 0, 0>>}

\* report buffers delivered to a radiopanel: all released; both act/stby buttons,
\* inner knob 0 right, outer knob 0 left, inner knob 1 both ways, outer knob 1
\* right, COM1 on both stacks; COM2 on both stacks
RadiopanelData == {<<0, 0, 0>>, <<129, 192, 121>>, <<2, 1, 0>>}

DataOf(product) ==
    IF product = USB_DEVICE_ID_SAITEK_PROFLIGHT_MULTIPANEL
    THEN MultipanelData ELSE RadiopanelData

\* the reports delivered: the panel's own ones with every buffer, those with
\* another report id or type with the buffer that has the most bits set
Reports(product) ==
    {[id |-> h[1], type |-> h[2], data |-> d, size |-> s] :
        h \in ReportHeaders, d \in DataOf(product), s \in 0..MaxSize}
    \ {rep \in [id : 0..1, type : 0..1, data : DataOf(product), size : 0..MaxSize] :
          (rep.id # 0 \/ rep.type # 0) /\ rep.data[2] < 128}

\* the panel's own reports of 3 bytes, with every buffer
HeldReports(product) ==
    {rep \in Reports(product) : rep.id = 0 /\ rep.type = 0 /\ rep.size = 3}

\* what callers write to the attribute of a multipanel
MultipanelWrites ==
    {Write(<<" ", " ", "2", "5", "0", " ", "-", "1", "5", "0", "0", " ", "1", "0", "1", "0", "0", "1", "0", "1", " ", "R">>),
     Write(<<" ", " ", "2", "5", "0", " ", "-", "1", "5", "0", "0", " ", "x", "1", "x", "0", "x", "x", "x", "0", " ", "N">>),
     Write(<<" ", " ", "2", "5", "0", " ", "-", "1", "5", "0", "0", " ", "1", "0", "1", "0", "0", "1", "0", "1", " ", "x", "\n">>),
     Write(<<"1", "2", "3", "4", "5", " ", "-", "9", "8", "7", "6", " ", "0", "1", "0", "1", "1", "0", "1", "0", " ", "\n">>),
     Write(<<"1", "2", "3", "4", "5", " ", "-", "9", "8", "7">>),
     Write(<<" ", " ", "2", "5", "0", " ", "-", "1", "5", "0", "0", " ", "1", "0", "1", "0", "0", "1", "0", "1", " ", "R", "x", "y">>),
     Write(<<>>)}

\* what callers write to the attribute of a radiopanel
RadiopanelWrites ==
    {Write(<<"1", "1", "8", ".", "2", "5", " ", " ", " ", " ", " ", "1", "2", "1", ".", "5", "0", " ", " ", " ", " ", " ", "1", ".", "2", ".", "3", ".", "4", ".", "5", ".", " ", " ", "-", "1", "2", " ", " ", " ", " ", " ", " ", " ", "R">>),
     Write(<<"1", "1", "8", ".", "2", "5", " ", " ", " ", " ", " ", "1", "2", "1", ".", "5", "0", " ", " ", " ", " ", " ", "1", ".", "2", ".", "3", ".", "4", ".", "5", ".", " ", " ", "-", "1", "2", " ", " ", " ", " ", " ", " ", " ", "N">>),
     Write(<<"1", "1", "8", ".", "2", "5", " ", " ", " ", " ", " ", "1", "2", "1", ".", "5", "0", " ", " ", " ", " ", " ", "1", ".", "2", ".", "3", ".", "4", ".", "5", ".", " ", " ", "-", "1", "2", " ", " ", " ", " ", " ", " ", " ", "x", "\n">>),
     Write(<<"9", "9", "9", ".", "9", "9", " ", " ", " ", " ", " ", "8", "8", "8", ".", "8", "8", " ", " ", " ", " ", " ", "7", ".", "7", ".", "7", ".", "7", ".", "7", ".", " ", "1", "2", "3", "4", "5", " ", " ", " ", " ", " ", " ", "\n">>),
     Write(<<"9", "9", "9", ".", "9", "9", " ", " ", " ", " ">>),
     Write(<<"1", "1", "8", ".", "2", "5", " ", " ", " ", " ", " ", "1", "2", "1", ".", "5", "0", " ", " ", " ", " ", " ", "1", ".", "2", ".", "3", ".", "4", ".", "5", ".", " ", " ", "-", "1", "2", " ", " ", " ", " ", " ", " ", " ", "R", "x", "y">>),
     Write(<<>>)}

Writes(product) ==
    IF product = USB_DEVICE_ID_SAITEK_PROFLIGHT_MULTIPANEL
    THEN MultipanelWrites ELSE RadiopanelWrites

\* the state saitek_proflight_probe leaves when it succeeds
Init ==
    /\ product_id \in {USB_DEVICE_ID_SAITEK_PROFLIGHT_MULTIPANEL,
                       USB_DEVICE_ID_SAITEK_PROFLIGHT_RADIOPANEL}
    /\ mode = "R"
    /\ multipanel = InitMultipanel
    /\ radiopanel = InitRadiopanel
    /\ dmabuf = [k \in 1..SAITEK_HID_BUF_LEN |-> 0]
    /\ lock = [writer |-> FALSE, readers |-> 0]
    /\ ev_pc = "idle"
    /\ report = NoReport
    /\ ev_ret = -1
    /\ last_report = <<>>
    /\ st_pc = "idle"
    /\ wbuf = NoWrite
    /\ st_ret = 0
    /\ sh_pc = [r \in Readers |-> "idle"]
    /\ sh_out = [r \in Readers |-> <<>>]
    /\ sh_ret = [r \in Readers |-> 0]
    /\ hid_res = 0
    /\ hid_buf = <<>>
    /\ zeroed = FALSE
    /\ last_out = <<>>
    /\ env_pc = "off"
    /\ seen = NoneSeen

(***************************************************************************)
(* saitek_proflight_raw_event                                              *)
(***************************************************************************)
\* a down_write that does not wait for the readers to leave
CanLockWrite_overreaders == ~lock.writer

\* SAITEK_LOCK_WRITE: down_write succeeds when nobody holds the semaphore
CanLockWrite == ~lock.writer /\ lock.readers = 0

\* SAITEK_LOCK_READ: down_read succeeds when no writer holds the semaphore
CanLockRead == ~lock.writer

\* the HID core calls raw_event with rep; SAITEK_LOCK_WRITE
RawEventEnter(rep) ==
    /\ ev_pc = "idle"
    /\ CanLockWrite
    /\ lock' = [lock EXCEPT !.writer = TRUE]
    /\ report' = rep
    /\ ev_pc' = "locked"
    /\ UNCHANGED <<product_id, mode, multipanel, radiopanel, dmabuf, ev_ret,
                   last_report, st_pc, wbuf, st_ret, sh_pc, sh_out, sh_ret,
                   hid_res, hid_buf, zeroed, last_out>>

\* the switch on product_id
RawEventDecode ==
    /\ ev_pc = "locked"
    /\ IF product_id = USB_DEVICE_ID_SAITEK_PROFLIGHT_MULTIPANEL
       THEN LET res == saitek_proflight_multipanel_raw_event(multipanel, report)
            IN  /\ multipanel' = res.panel
                /\ ev_ret' = res.ret
                /\ UNCHANGED radiopanel
       ELSE LET res == saitek_proflight_radiopanel_raw_event(radiopanel, report)
            IN  /\ radiopanel' = res.panel
                /\ ev_ret' = res.ret
                /\ UNCHANGED multipanel
    /\ last_report' = IF ev_ret' = 1 THEN report.data ELSE last_report
    /\ zeroed' = FALSE
    /\ last_out' = <<>>
    /\ ev_pc' = "decoded"
    /\ UNCHANGED <<product_id, mode, dmabuf, lock, report, st_pc, wbuf, st_ret,
                   sh_pc, sh_out, sh_ret, hid_res, hid_buf>>

\* SAITEK_UNLOCK_WRITE; return ret_val
RawEventExit ==
    /\ ev_pc = "decoded"
    /\ lock' = [lock EXCEPT !.writer = FALSE]
    /\ ev_pc' = "idle"
    /\ report' = NoReport
    /\ ev_ret' = -1
    /\ UNCHANGED <<product_id, mode, multipanel, radiopanel, dmabuf, last_report,
                   st_pc, wbuf, st_ret, sh_pc, sh_out, sh_ret, hid_res, hid_buf, zeroed, last_out>>

(***************************************************************************)
(* saitek_proflight_store                                                  *)
(***************************************************************************)
\* a caller writes w to the attribute; SAITEK_LOCK_WRITE
StoreEnter(w) ==
    /\ st_pc = "idle"
    /\ CanLockWrite
    /\ lock' = [lock EXCEPT !.writer = TRUE]
    /\ wbuf' = w
    /\ st_pc' = "locked"
    /\ UNCHANGED <<product_id, mode, multipanel, radiopanel, dmabuf, ev_pc, report,
                   ev_ret, last_report, st_ret, sh_pc, sh_out, sh_ret, hid_res, hid_buf, zeroed, last_out>>

\* count without one trailing new line character
TrueCount(buf, count) ==
    IF count > 0 /\ buf[count] = "\n" THEN count - 1 ELSE count

\* what hid_hw_raw_request may return for a feature report of len bytes
HidHwRawRequest(len) == {-EIO, len}

\* dmabuf is an allocation of SAITEK_HID_BUF_LEN bytes.  What the memory past
\* its end holds when it is read after tail was stored there: tail, or bytes
\* of whatever owns that memory
PastTheEnd(tail) == {tail, [k \in 1..Len(tail) |-> 255]}

\* a write that ignores what the transport returned
StoreResult_swallowed(ret_val, count) == count

\* what saitek_proflight_store returns: the transport's error, else count
StoreResult(ret_val, count) == IF ret_val < 0 THEN ret_val ELSE count

\* the switch on product_id: parse the text, build and send the feature report
StoreApply ==
    /\ st_pc = "locked"
    /\ LET true_count == TrueCount(wbuf.buf, wbuf.count)
       IN  IF product_id = USB_DEVICE_ID_SAITEK_PROFLIGHT_RADIOPANEL
           THEN LET parsed == saitek_buf_parse_radiopanel(radiopanel, mode,
                                                          wbuf.buf, true_count)
                IN  /\ radiopanel' = parsed.panel
                    /\ mode' = parsed.mode
                    /\ dmabuf' = SubSeq(RadiopanelReport(parsed.panel),
                                         1, SAITEK_HID_BUF_LEN)
                    /\ \E tail \in PastTheEnd(SubSeq(RadiopanelReport(parsed.panel),
                                                      SAITEK_HID_BUF_LEN + 1, 23)) :
                           hid_buf' = dmabuf' \o tail
                    /\ hid_res' \in HidHwRawRequest(23)
                    /\ UNCHANGED multipanel
           ELSE LET parsed == saitek_buf_parse_multipanel(multipanel, mode,
                                                          wbuf.buf, true_count)
                IN  /\ multipanel' = parsed.panel
                    /\ mode' = parsed.mode
                    /\ dmabuf' = MultipanelReport(parsed.panel)
                    /\ hid_buf' = dmabuf'
                    /\ hid_res' \in HidHwRawRequest(13)
                    /\ UNCHANGED radiopanel
    /\ st_ret' = StoreResult(hid_res', wbuf.count)
    /\ last_out' = <<>>
    /\ st_pc' = "applied"
    /\ UNCHANGED <<product_id, lock, ev_pc, report, ev_ret, last_report, wbuf,
                   sh_pc, sh_out, sh_ret, zeroed>>

\* SAITEK_UNLOCK_WRITE; return ret_val
StoreExit ==
    /\ st_pc = "applied"
    /\ lock' = [lock EXCEPT !.writer = FALSE]
    /\ st_pc' = "idle"
    /\ wbuf' = NoWrite
    /\ st_ret' = 0
    /\ hid_res' = 0
    /\ hid_buf' = <<>>
    /\ UNCHANGED <<product_id, mode, multipanel, radiopanel, dmabuf, ev_pc, report,
                   ev_ret, last_report, sh_pc, sh_out, sh_ret, zeroed, last_out>>

(***************************************************************************)
(* saitek_proflight_show                                                   *)
(***************************************************************************)
\* reader r reads the attribute; SAITEK_LOCK_READ
ShowEnter(r) ==
    /\ sh_pc[r] = "idle"
    /\ CanLockRead
    /\ lock' = [lock EXCEPT !.readers = @ + 1]
    /\ sh_pc' = [sh_pc EXCEPT ![r] = "locked"]
    /\ UNCHANGED <<product_id, mode, multipanel, radiopanel, dmabuf, ev_pc, report,
                   ev_ret, last_report, st_pc, wbuf, st_ret, sh_out, sh_ret,
                   hid_res, hid_buf, zeroed, last_out>>

\* the snprintf of saitek_buf_format_radiopanel or saitek_buf_format_multipanel
ShowFormat(r) ==
    /\ sh_pc[r] = "locked"
    /\ LET text == IF product_id = USB_DEVICE_ID_SAITEK_PROFLIGHT_RADIOPANEL
                   THEN RadiopanelText(radiopanel, mode)
                   ELSE MultipanelText(multipanel, mode)
       IN  /\ sh_out' = [sh_out EXCEPT ![r] = text]
           /\ sh_ret' = [sh_ret EXCEPT ![r] = Len(text)]
    /\ sh_pc' = [sh_pc EXCEPT ![r] = "formatted"]
    /\ UNCHANGED <<product_id, mode, multipanel, radiopanel, dmabuf, lock, ev_pc,
                   report, ev_ret, last_report, st_pc, wbuf, st_ret, hid_res, hid_buf, zeroed, last_out>>

\* the switch on parent->mode of the same function
ShowReset(r) ==
    /\ sh_pc[r] = "formatted"
    /\ IF product_id = USB_DEVICE_ID_SAITEK_PROFLIGHT_RADIOPANEL
       THEN /\ radiopanel' = RadiopanelReset(radiopanel, mode)
            /\ UNCHANGED multipanel
       ELSE /\ multipanel' = MultipanelReset(multipanel, mode)
            /\ UNCHANGED radiopanel
    /\ zeroed' = IF mode = "R" THEN TRUE ELSE zeroed
    /\ sh_pc' = [sh_pc EXCEPT ![r] = "reset"]
    /\ UNCHANGED <<product_id, mode, dmabuf, lock, ev_pc, report, ev_ret,
                   last_report, st_pc, wbuf, st_ret, sh_out, sh_ret, hid_res, hid_buf, last_out>>

\* SAITEK_UNLOCK_READ; return ret_val
ShowExit(r) ==
    /\ sh_pc[r] = "reset"
    /\ lock' = [lock EXCEPT !.readers = @ - 1]
    /\ sh_pc' = [sh_pc EXCEPT ![r] = "idle"]
    /\ sh_out' = [sh_out EXCEPT ![r] = <<>>]
    /\ sh_ret' = [sh_ret EXCEPT ![r] = 0]
    /\ last_out' = sh_out[r]
    /\ UNCHANGED <<product_id, mode, multipanel, radiopanel, dmabuf, ev_pc, report,
                   ev_ret, last_report, st_pc, wbuf, st_ret, hid_res, hid_buf, zeroed>>

RawEvent ==
    \/ \E rep \in Reports(product_id) : RawEventEnter(rep)
    \/ RawEventDecode
    \/ RawEventExit

Store ==
    \/ \E w \in Writes(product_id) : StoreEnter(w)
    \/ StoreApply
    \/ StoreExit

Show ==
    \E r \in Readers : ShowEnter(r) \/ ShowFormat(r) \/ ShowReset(r) \/ ShowExit(r)

Next == (RawEvent \/ Store \/ Show) /\ UNCHANGED <<env_pc, seen>>

Spec == Init /\ [][Next]_vars

(***************************************************************************)
(* SpecDecode: the decoders alone.  The session starts in a state a run of  *)
(* deliveries and reads leaves, the HID core delivers one report and then   *)
(* delivers the same report again and again.                               *)
(***************************************************************************)
\* a multipanel whose flags are all f, press counters all b, accumulators all e
MultipanelWith(f, b, e) ==
    [InitMultipanel EXCEPT
        !.hdg = f, !.nav = f, !.ias = f, !.alt = f, !.vs = f, !.apr = f, !.rev = f,
        !.ap = f, !.flaps_up = f, !.flaps_down = f, !.auto_throttle = f,
        !.pitch_trim_up = f, !.pitch_trim_down = f, !.knob_right = f, !.knob_left = f,
        !.ahdg = b, !.anav = b, !.aias = b, !.aalt = b, !.avs = b, !.aapr = b,
        !.arev = b, !.aap = b, !.flaps = e, !.pitch_trim = e, !.knob = e]

\* a radiopanel whose flags are all f, press counters all b, accumulators all e
RadiopanelWith(f, b, e) ==
    [InitRadiopanel EXCEPT
        !.actstby0 = f, !.actstby1 = f, !.innerknob0_right = f, !.innerknob0_left = f,
        !.outerknob0_right = f, !.outerknob0_left = f, !.innerknob1_right = f,
        !.innerknob1_left = f, !.outerknob1_right = f, !.outerknob1_left = f,
        !.aactstby0 = b, !.aactstby1 = b, !.innerknob0 = e, !.outerknob0 = e,
        !.innerknob1 = e, !.outerknob1 = e]

\* press counter and accumulator values the session starts SpecDecode with
DecodeCounts == {<<0, 0>>, <<8, 98>>, <<9, 99>>, <<9, -99>>, <<3, -98>>}

\* the values of each byte of the reports SpecDecode delivers
DecodeBytes == {0, 1, 2, 4, 8, 16, 32, 64, 128, 3, 12, 48, 96, 192, 255}

DecodeInit ==
    /\ product_id \in {USB_DEVICE_ID_SAITEK_PROFLIGHT_MULTIPANEL,
                       USB_DEVICE_ID_SAITEK_PROFLIGHT_RADIOPANEL}
    /\ mode = "R"
    /\ \E f \in {0, 1}, c \in DecodeCounts :
        IF product_id = USB_DEVICE_ID_SAITEK_PROFLIGHT_MULTIPANEL
        THEN multipanel = MultipanelWith(f, c[1], c[2]) /\ radiopanel = InitRadiopanel
        ELSE multipanel = InitMultipanel /\ radiopanel = RadiopanelWith(f, c[1], c[2])
    /\ dmabuf = [k \in 1..SAITEK_HID_BUF_LEN |-> 0]
    /\ lock = [writer |-> FALSE, readers |-> 0]
    /\ ev_pc = "idle"
    /\ report = NoReport
    /\ ev_ret = -1
    /\ last_report = <<>>
    /\ st_pc = "idle"
    /\ wbuf = NoWrite
    /\ st_ret = 0
    /\ sh_pc = [r \in Readers |-> "idle"]
    /\ sh_out = [r \in Readers |-> <<>>]
    /\ sh_ret = [r \in Readers |-> 0]
    /\ hid_res = 0
    /\ hid_buf = <<>>
    /\ zeroed = FALSE
    /\ last_out = <<>>
    /\ env_pc = "fresh"
    /\ seen = NoneSeen

\* the HID core delivers a first 3-byte report with id 0 and type 0
DecodeDeliver ==
    /\ env_pc = "fresh"
    /\ \E b0 \in DecodeBytes, b1 \in DecodeBytes, b2 \in DecodeBytes :
        RawEventEnter([id |-> 0, type |-> 0, data |-> <<b0, b1, b2>>, size |-> 3])
    /\ env_pc' = "delivered"
    /\ UNCHANGED seen

\* the HID core delivers the report it delivered last once more
DecodeRedeliver ==
    /\ env_pc \in {"delivered", "redelivered"}
    /\ RawEventEnter([id |-> 0, type |-> 0, data |-> last_report, size |-> 3])
    /\ env_pc' = "redelivered"
    /\ UNCHANGED seen

DecodeNext ==
    \/ DecodeDeliver
    \/ DecodeRedeliver
    \/ (RawEventDecode /\ UNCHANGED <<env_pc, seen>>)
    \/ (RawEventExit /\ UNCHANGED <<env_pc, seen>>)

SpecDecode == DecodeInit /\ [][DecodeNext]_vars

(***************************************************************************)
(* SpecCodec: the display codec alone.  A text is parsed into the first    *)
(* display of the panel and that display is formatted into the output      *)
(* buffer of reader 1, with the buffer sizes the serializer passes.        *)
(***************************************************************************)
\* the characters of the enumerated texts
CodecAlphabet == {"0", "7", " ", "-", ".", "x"}

\* texts parsed besides the enumerated ones
CodecExtraTexts ==
    {<<"1", "2", "3", "4", "5">>,
     <<"1", "2", "3", "4", "5", ".">>,
     <<"1", ".", "2", ".", "3", ".", "4", ".", "5", ".">>,
     <<"0", "1", "2", "3", "4", "5", "6", "7", "8", "9">>,
     <<"1", "1", "8", ".", "2", "5", " ", " ", " ", " ">>,
     <<"-", "1", "5", "0", "0">>,
     <<" ", " ", "2", "5", "0">>,
     <<" ", ".", "5", " ", " ", "x">>,
     <<"9", "8", ".", "7", "6", ".", "5">>,
     <<"1", "2", "3", "4", "5", ".", "6">>,
     <<"1", "2", "3", "4", "5", "6", ".">>}

CodecTexts ==
    UNION {[1..n -> CodecAlphabet] : n \in 0..MaxLen} \cup CodecExtraTexts

CodecInit ==
    /\ product_id \in {USB_DEVICE_ID_SAITEK_PROFLIGHT_MULTIPANEL,
                       USB_DEVICE_ID_SAITEK_PROFLIGHT_RADIOPANEL}
    /\ mode = "R"
    /\ multipanel = InitMultipanel
    /\ radiopanel = InitRadiopanel
    /\ dmabuf = [k \in 1..SAITEK_HID_BUF_LEN |-> 0]
    /\ lock = [writer |-> FALSE, readers |-> 0]
    /\ ev_pc = "idle"
    /\ report = NoReport
    /\ ev_ret = -1
    /\ last_report = <<>>
    /\ st_pc = "idle"
    /\ wbuf \in {Write(s) : s \in CodecTexts}
    /\ st_ret = 0
    /\ sh_pc = [r \in Readers |-> "idle"]
    /\ sh_out = [r \in Readers |-> <<>>]
    /\ sh_ret = [r \in Readers |-> 0]
    /\ hid_res = 0
    /\ hid_buf = <<>>
    /\ zeroed = FALSE
    /\ last_out = <<>>
    /\ env_pc = "text"
    /\ seen = NoneSeen

\* saitek_parse_radiopanel_display or saitek_parse_multipanel_display on the text
CodecParse ==
    /\ env_pc = "text"
    /\ IF product_id = USB_DEVICE_ID_SAITEK_PROFLIGHT_RADIOPANEL
       THEN /\ radiopanel' =
                [radiopanel EXCEPT !.display0l =
                    saitek_parse_radiopanel_display(@, wbuf.buf, wbuf.count)]
            /\ UNCHANGED multipanel
       ELSE /\ multipanel' =
                [multipanel EXCEPT !.display0 =
                    saitek_parse_multipanel_display(@, wbuf.buf, wbuf.count)]
            /\ UNCHANGED radiopanel
    /\ env_pc' = "parsed"
    /\ UNCHANGED seen
    /\ UNCHANGED <<product_id, mode, dmabuf, lock, ev_pc, report, ev_ret,
                   last_report, st_pc, wbuf, st_ret, sh_pc, sh_out, sh_ret,
                   hid_res, hid_buf, zeroed, last_out>>

\* saitek_format_radiopanel_display or saitek_format_multipanel_display on the display
CodecFormat ==
    /\ env_pc = "parsed"
    /\ LET text == IF product_id = USB_DEVICE_ID_SAITEK_PROFLIGHT_RADIOPANEL
                   THEN saitek_format_radiopanel_display(radiopanel.display0l, 10)
                   ELSE saitek_format_multipanel_display(multipanel.display0, 5)
       IN  /\ sh_out' = [sh_out EXCEPT ![1] = text]
           /\ sh_ret' = [sh_ret EXCEPT ![1] = Len(text)]
    /\ env_pc' = "formatted"
    /\ UNCHANGED seen
    /\ UNCHANGED <<product_id, mode, multipanel, radiopanel, dmabuf, lock, ev_pc,
                   report, ev_ret, last_report, st_pc, wbuf, st_ret, sh_pc,
                   hid_res, hid_buf, zeroed, last_out>>

CodecNext == CodecParse \/ CodecFormat

SpecCodec == CodecInit /\ [][CodecNext]_vars


(***************************************************************************)
(* SpecFormat: the display formatters alone, on any bytes.  The first      *)
(* display of the panel holds five bytes, digit codes or not, and is       *)
(* formatted into the output buffer of reader 1.                           *)
(***************************************************************************)
\* bytes of a display: the digits 0 and 7, minus, blank, 0x0a, 7 and blank
\* with the decimal-point flag, and 3 with another high bit
FormatCodes == {0, 7, PANEL_DIGIT_MINUS, PANEL_DIGIT_NULL, 10, 215, 223, 19}

FormatInit ==
    /\ product_id \in {USB_DEVICE_ID_SAITEK_PROFLIGHT_MULTIPANEL,
                       USB_DEVICE_ID_SAITEK_PROFLIGHT_RADIOPANEL}
    /\ mode = "R"
    /\ \E d \in [1..5 -> FormatCodes] :
          /\ multipanel = [InitMultipanel EXCEPT !.display0 = d]
          /\ radiopanel = [InitRadiopanel EXCEPT !.display0l = d]
    /\ dmabuf = [k \in 1..SAITEK_HID_BUF_LEN |-> 0]
    /\ lock = [writer |-> FALSE, readers |-> 0]
    /\ ev_pc = "idle"
    /\ report = NoReport
    /\ ev_ret = -1
    /\ last_report = <<>>
    /\ st_pc = "idle"
    /\ wbuf = NoWrite
    /\ st_ret = 0
    /\ sh_pc = [r \in Readers |-> "idle"]
    /\ sh_out = [r \in Readers |-> <<>>]
    /\ sh_ret = [r \in Readers |-> 0]
    /\ hid_res = 0
    /\ hid_buf = <<>>
    /\ zeroed = FALSE
    /\ last_out = <<>>
    /\ env_pc = "parsed"
    /\ seen = NoneSeen

FormatNext == CodecFormat

SpecFormat == FormatInit /\ [][FormatNext]_vars

(***************************************************************************)
(* SpecShow: the read path alone.  The session holds flags, counts, modes  *)
(* and displays that deliveries and writes leave, and a reader reads.       *)
(***************************************************************************)
\* the mode of a multipanel, and the modes of the two stacks of a radiopanel
ShowMultipanelModes == 0..MULTIPANEL_MODE_CRS

ShowRadiopanelModes ==
    {<<0, 0>>, <<0, RADIOPANEL_MODE_COM1>>, <<RADIOPANEL_MODE_COM2, 0>>,
     <<RADIOPANEL_MODE_NAV1, RADIOPANEL_MODE_NAV2>>,
     <<RADIOPANEL_MODE_ADF, RADIOPANEL_MODE_XPDR>>,
     <<RADIOPANEL_MODE_XPDR, RADIOPANEL_MODE_DME>>}

\* what the displays of a multipanel hold: nothing written yet, "  250", "-1500"
ShowMultipanelDisplays ==
    {<<0, 0, 0, 0, 0>>, <<PANEL_DIGIT_NULL, PANEL_DIGIT_NULL, 2, 5, 0>>,
     <<PANEL_DIGIT_MINUS, 1, 5, 0, 0>>}

\* what the displays of a radiopanel hold: nothing written yet, "118.25",
\* ". . . . ."
ShowRadiopanelDisplays ==
    {<<0, 0, 0, 0, 0>>, <<1, 1, 216, 2, 5>>, <<223, 223, 223, 223, 223>>}

\* a press count and an accumulator: one digit, two digits, a sign
ShowCounts == {<<0, 0>>, <<3, 98>>, <<9, -99>>}

ShowsInit ==
    /\ product_id \in {USB_DEVICE_ID_SAITEK_PROFLIGHT_MULTIPANEL,
                       USB_DEVICE_ID_SAITEK_PROFLIGHT_RADIOPANEL}
    /\ mode \in {"N", "R"}
    /\ \E f \in {0, 1}, c \in ShowCounts :
        IF product_id = USB_DEVICE_ID_SAITEK_PROFLIGHT_MULTIPANEL
        THEN /\ \E m \in ShowMultipanelModes, d \in ShowMultipanelDisplays :
                    multipanel = [MultipanelWith(f, c[1], c[2]) EXCEPT
                                     !.mode = m, !.display0 = d, !.display1 = d]
             /\ radiopanel = InitRadiopanel
        ELSE /\ \E m \in ShowRadiopanelModes, d \in ShowRadiopanelDisplays :
                    radiopanel = [RadiopanelWith(f, c[1], c[2]) EXCEPT
                                     !.mode0 = m[1], !.mode1 = m[2],
                                     !.display0l = d, !.display0r = d,
                                     !.display1l = d, !.display1r = d]
             /\ multipanel = InitMultipanel
    /\ dmabuf = [k \in 1..SAITEK_HID_BUF_LEN |-> 0]
    /\ lock = [writer |-> FALSE, readers |-> 0]
    /\ ev_pc = "idle"
    /\ report = NoReport
    /\ ev_ret = -1
    /\ last_report = <<>>
    /\ st_pc = "idle"
    /\ wbuf = NoWrite
    /\ st_ret = 0
    /\ sh_pc = [r \in Readers |-> "idle"]
    /\ sh_out = [r \in Readers |-> <<>>]
    /\ sh_ret = [r \in Readers |-> 0]
    /\ hid_res = 0
    /\ hid_buf = <<>>
    /\ zeroed = FALSE
    /\ last_out = <<>>
    /\ env_pc = "off"
    /\ seen = NoneSeen

\* one reader reads, again and again
ShowsNext ==
    /\ ShowEnter(1) \/ ShowFormat(1) \/ ShowReset(1) \/ ShowExit(1)
    /\ UNCHANGED <<env_pc, seen>>

SpecShow == ShowsInit /\ [][ShowsNext]_vars

(***************************************************************************)
(* SpecDetach: the life of a session from attach to detach.  A read, a     *)
(* write, a report delivery and a detach are called first and take the     *)
(* semaphore in a step of their own: a caller joins the wait list of the   *)
(* rw_semaphore and is served when it is first in it.  env_pc is the       *)
(* position of saitek_proflight_probe and saitek_proflight_remove.         *)
(***************************************************************************)
\* the report delivered and the line written in this specification: all
\* released, a line too short to be applied
DetachReports(product) ==
    {rep \in Reports(product) :
        rep.id = 0 /\ rep.type = 0 /\ rep.size = 3 /\ rep.data = <<0, 0, 0>>}

DetachWrites(product) == {w \in Writes(product) : w.count = 10}

\* the attribute file exists: from device_create_file to device_remove_file
FileExists == env_pc \in {"probing", "attached", "rm_called", "rm_locked", "rm_stopped"}

\* the transport delivers reports: from hid_hw_start to hid_hw_stop
HwStarted == env_pc \in {"probing", "attached", "rm_called", "rm_locked"}

\* the caller is the first of the wait list of the semaphore
IsNext(caller) == lock.wait_list # <<>> /\ Head(lock.wait_list) = caller

\* a read or a write of the attribute has been called and has not returned
AttributeInUse == st_pc # "idle" \/ \E r \in Readers : sh_pc[r] # "idle"

DetachInit ==
    /\ product_id \in {USB_DEVICE_ID_SAITEK_PROFLIGHT_MULTIPANEL,
                       USB_DEVICE_ID_SAITEK_PROFLIGHT_RADIOPANEL}
    /\ mode = "R"
    /\ multipanel = InitMultipanel
    /\ radiopanel = InitRadiopanel
    /\ dmabuf = [k \in 1..SAITEK_HID_BUF_LEN |-> 0]
    /\ lock = [writer |-> FALSE, readers |-> 0, wait_list |-> <<>>]
    /\ ev_pc = "idle"
    /\ report = NoReport
    /\ ev_ret = -1
    /\ last_report = <<>>
    /\ st_pc = "idle"
    /\ wbuf = NoWrite
    /\ st_ret = 0
    /\ sh_pc = [r \in Readers |-> "idle"]
    /\ sh_out = [r \in Readers |-> <<>>]
    /\ sh_ret = [r \in Readers |-> 0]
    /\ hid_res = 0
    /\ hid_buf = <<>>
    /\ zeroed = FALSE
    /\ last_out = <<>>
    /\ env_pc = "unbound"
    /\ seen = NoneSeen

\* saitek_proflight_probe up to hid_hw_start: SAITEK_INIT_LOCK,
\* SAITEK_LOCK_WRITE, device_create_file, hid_set_drvdata
ProbeEnter ==
    /\ env_pc = "unbound"
    /\ lock' = [lock EXCEPT !.writer = TRUE]
    /\ env_pc' = "probing"
    /\ UNCHANGED <<product_id, mode, multipanel, radiopanel, dmabuf, ev_pc, report,
                   ev_ret, last_report, st_pc, wbuf, st_ret, sh_pc, sh_out, sh_ret,
                   hid_res, hid_buf, zeroed, last_out, seen>>

\* initialized = 1; SAITEK_UNLOCK_WRITE
ProbeExit ==
    /\ env_pc = "probing"
    /\ lock' = [lock EXCEPT !.writer = FALSE]
    /\ env_pc' = "attached"
    /\ UNCHANGED <<product_id, mode, multipanel, radiopanel, dmabuf, ev_pc, report,
                   ev_ret, last_report, st_pc, wbuf, st_ret, sh_pc, sh_out, sh_ret,
                   hid_res, hid_buf, zeroed, last_out, seen>>

\* the HID core calls saitek_proflight_remove
RemoveCall ==
    /\ env_pc = "attached"
    /\ lock' = [lock EXCEPT !.wait_list = Append(@, <<"remove", 0>>)]
    /\ env_pc' = "rm_called"
    /\ UNCHANGED <<product_id, mode, multipanel, radiopanel, dmabuf, ev_pc, report,
                   ev_ret, last_report, st_pc, wbuf, st_ret, sh_pc, sh_out, sh_ret,
                   hid_res, hid_buf, zeroed, last_out, seen>>

\* SAITEK_LOCK_WRITE of saitek_proflight_remove
RemoveEnter ==
    /\ env_pc = "rm_called"
    /\ IsNext(<<"remove", 0>>)
    /\ CanLockWrite
    /\ lock' = [lock EXCEPT !.writer = TRUE, !.wait_list = Tail(@)]
    /\ env_pc' = "rm_locked"
    /\ UNCHANGED <<product_id, mode, multipanel, radiopanel, dmabuf, ev_pc, report,
                   ev_ret, last_report, st_pc, wbuf, st_ret, sh_pc, sh_out, sh_ret,
                   hid_res, hid_buf, zeroed, last_out, seen>>

\* hid_hw_stop
RemoveStop ==
    /\ env_pc = "rm_locked"
    /\ env_pc' = "rm_stopped"
    /\ UNCHANGED <<product_id, mode, multipanel, radiopanel, dmabuf, lock, ev_pc,
                   report, ev_ret, last_report, st_pc, wbuf, st_ret, sh_pc, sh_out,
                   sh_ret, hid_res, hid_buf, zeroed, last_out, seen>>

\* device_remove_file: returns once no read or write of the attribute is
\* in progress
RemoveFile ==
    /\ env_pc = "rm_stopped"
    /\ ~AttributeInUse
    /\ env_pc' = "rm_removed"
    /\ UNCHANGED <<product_id, mode, multipanel, radiopanel, dmabuf, lock, ev_pc,
                   report, ev_ret, last_report, st_pc, wbuf, st_ret, sh_pc, sh_out,
                   sh_ret, hid_res, hid_buf, zeroed, last_out, seen>>

\* initialized = 0; SAITEK_UNLOCK_WRITE
RemoveExit ==
    /\ env_pc = "rm_removed"
    /\ lock' = [lock EXCEPT !.writer = FALSE]
    /\ env_pc' = "detached"
    /\ UNCHANGED <<product_id, mode, multipanel, radiopanel, dmabuf, ev_pc, report,
                   ev_ret, last_report, st_pc, wbuf, st_ret, sh_pc, sh_out, sh_ret,
                   hid_res, hid_buf, zeroed, last_out, seen>>

\* reader r calls saitek_proflight_show
DetachShowCall(r) ==
    /\ FileExists
    /\ sh_pc[r] = "idle"
    /\ sh_pc' = [sh_pc EXCEPT ![r] = "called"]
    /\ lock' = [lock EXCEPT !.wait_list = Append(@, <<"show", r>>)]
    /\ UNCHANGED <<product_id, mode, multipanel, radiopanel, dmabuf, ev_pc,
                   report, ev_ret, last_report, st_pc, wbuf, st_ret, sh_out, sh_ret,
                   hid_res, hid_buf, zeroed, last_out, env_pc, seen>>

\* SAITEK_LOCK_READ of saitek_proflight_show
DetachShowLock(r) ==
    /\ sh_pc[r] = "called"
    /\ IsNext(<<"show", r>>)
    /\ CanLockRead
    /\ lock' = [lock EXCEPT !.readers = @ + 1, !.wait_list = Tail(@)]
    /\ sh_pc' = [sh_pc EXCEPT ![r] = "locked"]
    /\ UNCHANGED <<product_id, mode, multipanel, radiopanel, dmabuf, ev_pc, report,
                   ev_ret, last_report, st_pc, wbuf, st_ret, sh_out, sh_ret,
                   hid_res, hid_buf, zeroed, last_out, env_pc, seen>>

\* the rest of saitek_proflight_show
DetachShowStep(r) ==
    /\ ShowFormat(r) \/ ShowReset(r) \/ ShowExit(r)
    /\ UNCHANGED <<env_pc, seen>>

\* a caller calls saitek_proflight_store with w
DetachStoreCall(w) ==
    /\ FileExists
    /\ st_pc = "idle"
    /\ wbuf' = w
    /\ st_pc' = "called"
    /\ lock' = [lock EXCEPT !.wait_list = Append(@, <<"store", 0>>)]
    /\ UNCHANGED <<product_id, mode, multipanel, radiopanel, dmabuf, ev_pc,
                   report, ev_ret, last_report, st_ret, sh_pc, sh_out, sh_ret,
                   hid_res, hid_buf, zeroed, last_out, env_pc, seen>>

\* SAITEK_LOCK_WRITE of saitek_proflight_store
DetachStoreLock ==
    /\ st_pc = "called"
    /\ IsNext(<<"store", 0>>)
    /\ CanLockWrite
    /\ lock' = [lock EXCEPT !.writer = TRUE, !.wait_list = Tail(@)]
    /\ st_pc' = "locked"
    /\ UNCHANGED <<product_id, mode, multipanel, radiopanel, dmabuf, ev_pc, report,
                   ev_ret, last_report, wbuf, st_ret, sh_pc, sh_out, sh_ret,
                   hid_res, hid_buf, zeroed, last_out, env_pc, seen>>

\* the rest of saitek_proflight_store
DetachStoreStep ==
    /\ StoreApply \/ StoreExit
    /\ UNCHANGED <<env_pc, seen>>

\* the HID core calls saitek_proflight_raw_event with rep
DetachRawEventCall(rep) ==
    /\ HwStarted
    /\ ev_pc = "idle"
    /\ report' = rep
    /\ ev_pc' = "called"
    /\ lock' = [lock EXCEPT !.wait_list = Append(@, <<"raw_event", 0>>)]
    /\ UNCHANGED <<product_id, mode, multipanel, radiopanel, dmabuf, ev_ret,
                   last_report, st_pc, wbuf, st_ret, sh_pc, sh_out, sh_ret,
                   hid_res, hid_buf, zeroed, last_out, env_pc, seen>>

\* SAITEK_LOCK_WRITE of saitek_proflight_raw_event
DetachRawEventLock ==
    /\ ev_pc = "called"
    /\ IsNext(<<"raw_event", 0>>)
    /\ CanLockWrite
    /\ lock' = [lock EXCEPT !.writer = TRUE, !.wait_list = Tail(@)]
    /\ ev_pc' = "locked"
    /\ UNCHANGED <<product_id, mode, multipanel, radiopanel, dmabuf, report, ev_ret,
                   last_report, st_pc, wbuf, st_ret, sh_pc, sh_out, sh_ret,
                   hid_res, hid_buf, zeroed, last_out, env_pc, seen>>

\* the rest of saitek_proflight_raw_event
DetachRawEventStep ==
    /\ RawEventDecode \/ RawEventExit
    /\ UNCHANGED <<env_pc, seen>>

DetachNext ==
    \/ ProbeEnter
    \/ ProbeExit
    \/ RemoveCall
    \/ RemoveEnter
    \/ RemoveStop
    \/ RemoveFile
    \/ RemoveExit
    \/ \E r \in Readers : DetachShowCall(r) \/ DetachShowLock(r) \/ DetachShowStep(r)
    \/ \E w \in DetachWrites(product_id) : DetachStoreCall(w)
    \/ DetachStoreLock
    \/ DetachStoreStep
    \/ \E rep \in DetachReports(product_id) : DetachRawEventCall(rep)
    \/ DetachRawEventLock
    \/ DetachRawEventStep

\* the semaphore serves its wait list in order and every step that can be
\* taken is taken
DetachFairness ==
    /\ WF_vars(ProbeExit)
    /\ WF_vars(RemoveEnter)
    /\ WF_vars(RemoveStop)
    /\ WF_vars(RemoveFile)
    /\ WF_vars(RemoveExit)
    /\ \A r \in Readers : WF_vars(DetachShowLock(r)) /\ WF_vars(DetachShowStep(r))
    /\ WF_vars(DetachStoreLock)
    /\ WF_vars(DetachStoreStep)
    /\ WF_vars(DetachRawEventLock)
    /\ WF_vars(DetachRawEventStep)

SpecDetach == DetachInit /\ [][DetachNext]_vars /\ DetachFairness

(***************************************************************************)
(* SpecReads: deliveries and reads of a session in mode 'R'.  seen counts  *)
(* the press edges of one button that were decoded and the presses of it   *)
(* that completed reads have reported: HDG on a multipanel, the first      *)
(* act/stby button on a radiopanel.                                        *)
(***************************************************************************)
\* byte 1 of a report with the button pressed
PressedByte == IF product_id = USB_DEVICE_ID_SAITEK_PROFLIGHT_MULTIPANEL THEN 1 ELSE 64

\* the reports delivered: button released, button pressed
ReadsReports ==
    {[id |-> 0, type |-> 0, data |-> <<0, b, 0>>, size |-> 3] : b \in {0, PressedByte}}

\* the flag and the press counter of the button
PressFlag ==
    IF product_id = USB_DEVICE_ID_SAITEK_PROFLIGHT_MULTIPANEL
    THEN multipanel.hdg ELSE radiopanel.actstby0

PressCount ==
    IF product_id = USB_DEVICE_ID_SAITEK_PROFLIGHT_MULTIPANEL
    THEN multipanel.ahdg ELSE radiopanel.aactstby0

\* the value of the press counter in the text of a read: the %1.1d that
\* prints ahdg, or aactstby0
ReportedPresses(text) ==
    LET ch == text[IF product_id = USB_DEVICE_ID_SAITEK_PROFLIGHT_MULTIPANEL
                   THEN 52 ELSE 54]
    IN  CHOOSE n \in 0..SAITEK_MAX_BTN : NatDigits(n) = <<ch>>

ReadsInit ==
    /\ product_id \in {USB_DEVICE_ID_SAITEK_PROFLIGHT_MULTIPANEL,
                       USB_DEVICE_ID_SAITEK_PROFLIGHT_RADIOPANEL}
    /\ mode = "R"
    /\ multipanel = InitMultipanel
    /\ radiopanel = InitRadiopanel
    /\ dmabuf = [k \in 1..SAITEK_HID_BUF_LEN |-> 0]
    /\ lock = [writer |-> FALSE, readers |-> 0]
    /\ ev_pc = "idle"
    /\ report = NoReport
    /\ ev_ret = -1
    /\ last_report = <<>>
    /\ st_pc = "idle"
    /\ wbuf = NoWrite
    /\ st_ret = 0
    /\ sh_pc = [r \in Readers |-> "idle"]
    /\ sh_out = [r \in Readers |-> <<>>]
    /\ sh_ret = [r \in Readers |-> 0]
    /\ hid_res = 0
    /\ hid_buf = <<>>
    /\ zeroed = FALSE
    /\ last_out = <<>>
    /\ env_pc = "off"
    /\ seen = [edges |-> 0, reported |-> 0]

\* a report is delivered while the counter is far from SAITEK_MAX_BTN
ReadsDeliver ==
    /\ seen.edges < MaxDeliveries
    /\ \E rep \in ReadsReports : RawEventEnter(rep)
    /\ UNCHANGED <<env_pc, seen>>

\* the report is decoded; a press edge is a set bit with the flag clear
ReadsDecode ==
    /\ RawEventDecode
    /\ seen' = IF report.data[2] = PressedByte /\ PressFlag = 0
               THEN [seen EXCEPT !.edges = @ + 1] ELSE seen
    /\ UNCHANGED env_pc

ReadsDelivered == RawEventExit /\ UNCHANGED <<env_pc, seen>>

\* a read up to its return
ReadsShow(r) ==
    /\ ShowEnter(r) \/ ShowFormat(r) \/ ShowReset(r)
    /\ UNCHANGED <<env_pc, seen>>

\* the read returns its text: it is complete
ReadsShown(r) ==
    /\ ShowExit(r)
    /\ seen' = [seen EXCEPT !.reported = @ + ReportedPresses(sh_out[r])]
    /\ UNCHANGED env_pc

ReadsNext ==
    \/ ReadsDeliver
    \/ ReadsDecode
    \/ ReadsDelivered
    \/ \E r \in Readers : ReadsShow(r) \/ ReadsShown(r)

SpecReads == ReadsInit /\ [][ReadsNext]_vars

(***************************************************************************)
(* SpecProbe: saitek_proflight_probe step by step, each step failing or    *)
(* not, then the operations on what it has set up and the detach.  env_pc  *)
(* is the position of the attach and of the detach; seen holds res, the    *)
(* field initialized and the resources that exist.                         *)
(***************************************************************************)
ENOMEM == 12

\* everything a successful attach has set up
FullSetUp == {"data", "dmabuf", "lock", "file", "drvdata", "hw"}

ProbeInit ==
    /\ product_id \in {USB_DEVICE_ID_SAITEK_PROFLIGHT_MULTIPANEL,
                       USB_DEVICE_ID_SAITEK_PROFLIGHT_RADIOPANEL}
    /\ mode = "R"
    /\ multipanel = InitMultipanel
    /\ radiopanel = InitRadiopanel
    /\ dmabuf = [k \in 1..SAITEK_HID_BUF_LEN |-> 0]
    /\ lock = [writer |-> FALSE, readers |-> 0]
    /\ ev_pc = "idle"
    /\ report = NoReport
    /\ ev_ret = -1
    /\ last_report = <<>>
    /\ st_pc = "idle"
    /\ wbuf = NoWrite
    /\ st_ret = 0
    /\ sh_pc = [r \in Readers |-> "idle"]
    /\ sh_out = [r \in Readers |-> <<>>]
    /\ sh_ret = [r \in Readers |-> 0]
    /\ hid_res = 0
    /\ hid_buf = <<>>
    /\ zeroed = FALSE
    /\ last_out = <<>>
    /\ env_pc = "unbound"
    /\ seen = [res |-> 0, initialized |-> 0, done |-> {}]

\* the session part of every step of the attach and of the detach but for
\* the semaphore
ProbeFrame ==
    UNCHANGED <<product_id, mode, multipanel, radiopanel, dmabuf, ev_pc, report,
                ev_ret, last_report, st_pc, wbuf, st_ret, sh_pc, sh_out, sh_ret,
                hid_res, hid_buf, zeroed, last_out>>

\* res = saitek_proflight_alloc_panel_data(): one of its three devm_kzalloc
\* fails and it returns -ENOMEM, or it returns 0; if (res) goto exit
ProbeAlloc ==
    /\ env_pc = "unbound"
    /\ \/ /\ \E got \in {{}, {"data"}} :
                seen' = [seen EXCEPT !.res = -ENOMEM, !.done = got]
          /\ env_pc' = "returned"
       \/ /\ seen' = [seen EXCEPT !.res = 0, !.done = {"data", "dmabuf"}]
          /\ env_pc' = "allocated"
    /\ UNCHANGED lock
    /\ ProbeFrame

\* driver_data->lock = devm_kzalloc(); if (!driver_data->lock) goto exit;
\* SAITEK_INIT_LOCK; SAITEK_LOCK_WRITE
ProbeLock ==
    /\ env_pc = "allocated"
    /\ \/ /\ env_pc' = "returned"
          /\ UNCHANGED <<seen, lock>>
       \/ /\ seen' = [seen EXCEPT !.done = @ \cup {"lock"}]
          /\ lock' = [lock EXCEPT !.writer = TRUE]
          /\ env_pc' = "pr_locked"
    /\ ProbeFrame

\* res = device_create_file(); if (res) goto fail_dev; product_id, hdev, mode,
\* hid_set_drvdata
ProbeCreateFile ==
    /\ env_pc = "pr_locked"
    /\ \/ /\ seen' = [seen EXCEPT !.res = -ENOMEM]
          /\ env_pc' = "pr_failed"
       \/ /\ seen' = [seen EXCEPT !.res = 0, !.done = @ \cup {"file", "drvdata"}]
          /\ env_pc' = "pr_created"
    /\ UNCHANGED lock
    /\ ProbeFrame

\* res = saitek_proflight_hid_start(): hid_parse or hid_hw_start fails, or
\* both succeed; if (res) goto fail_dev; initialized = 1
ProbeHidStart ==
    /\ env_pc = "pr_created"
    /\ \/ /\ seen' = [seen EXCEPT !.res = -EIO]
          /\ env_pc' = "pr_failed"
       \/ /\ seen' = [seen EXCEPT !.res = 0, !.initialized = 1,
                                  !.done = @ \cup {"hw"}]
          /\ env_pc' = "pr_started"
    /\ UNCHANGED lock
    /\ ProbeFrame

\* fail_dev without the SAITEK_UNLOCK_WRITE of exit_sem
ProbeFailed_locked ==
    /\ env_pc = "pr_failed"
    /\ seen' = [seen EXCEPT !.done = @ \ {"file"}]
    /\ env_pc' = "returned"
    /\ UNCHANGED lock
    /\ ProbeFrame

\* fail_dev: device_remove_file; exit_sem: SAITEK_UNLOCK_WRITE; return res
ProbeFailed ==
    /\ env_pc = "pr_failed"
    /\ seen' = [seen EXCEPT !.done = @ \ {"file"}]
    /\ lock' = [lock EXCEPT !.writer = FALSE]
    /\ env_pc' = "returned"
    /\ ProbeFrame

\* goto exit_sem: SAITEK_UNLOCK_WRITE; return res
ProbeReturn ==
    /\ env_pc = "pr_started"
    /\ lock' = [lock EXCEPT !.writer = FALSE]
    /\ env_pc' = "returned"
    /\ UNCHANGED seen
    /\ ProbeFrame

\* the HID core has bound the device: the attach returned 0
Bound == env_pc = "returned" /\ seen.res = 0

\* saitek_proflight_remove without driver data: return
ProbeRemoveNoData ==
    /\ Bound
    /\ "drvdata" \notin seen.done
    /\ env_pc' = "detached"
    /\ UNCHANGED <<seen, lock>>
    /\ ProbeFrame

\* saitek_proflight_remove: SAITEK_LOCK_WRITE
ProbeRemoveEnter ==
    /\ Bound
    /\ "drvdata" \in seen.done
    /\ CanLockWrite
    /\ lock' = [lock EXCEPT !.writer = TRUE]
    /\ env_pc' = "rm_locked"
    /\ UNCHANGED seen
    /\ ProbeFrame

\* if (initialized) { hid_hw_stop; device_remove_file; initialized = 0 }
ProbeRemoveBody ==
    /\ env_pc = "rm_locked"
    /\ seen' = IF seen.initialized # 0
               THEN [seen EXCEPT !.initialized = 0, !.done = @ \ {"hw", "file"}]
               ELSE seen
    /\ env_pc' = "rm_done"
    /\ UNCHANGED lock
    /\ ProbeFrame

\* SAITEK_UNLOCK_WRITE
ProbeRemoveExit ==
    /\ env_pc = "rm_done"
    /\ lock' = [lock EXCEPT !.writer = FALSE]
    /\ env_pc' = "detached"
    /\ UNCHANGED seen
    /\ ProbeFrame

\* the callbacks: the attribute is read and written while its file exists,
\* reports (all released, of 2 and 3 bytes, with every report id and type)
\* are delivered while the transport is started
ProbeCallbacks ==
    /\ \/ /\ "hw" \in seen.done
          /\ \E rep \in {x \in Reports(product_id) :
                               x.data = <<0, 0, 0>> /\ x.size \in {2, 3}} :
                 RawEventEnter(rep)
       \/ RawEventDecode
       \/ RawEventExit
       \/ /\ "file" \in seen.done
          /\ \E w \in DetachWrites(product_id) : StoreEnter(w)
       \/ StoreApply
       \/ StoreExit
       \/ /\ "file" \in seen.done
          /\ \E r \in Readers : ShowEnter(r)
       \/ \E r \in Readers : ShowFormat(r) \/ ShowReset(r) \/ ShowExit(r)
    /\ UNCHANGED <<env_pc, seen>>

ProbeNext ==
    \/ ProbeAlloc
    \/ ProbeLock
    \/ ProbeCreateFile
    \/ ProbeHidStart
    \/ ProbeFailed
    \/ ProbeReturn
    \/ ProbeRemoveNoData
    \/ ProbeRemoveEnter
    \/ ProbeRemoveBody
    \/ ProbeRemoveExit
    \/ ProbeCallbacks

SpecProbe == ProbeInit /\ [][ProbeNext]_vars

(***************************************************************************)
(* SpecRoundTrip: lines are written to the attribute and the attribute is  *)
(* read; reports come in between.  seen is the line of the last write      *)
(* that was applied.                                                       *)
(***************************************************************************)
\* lines written to a multipanel: three of digits, spaces and '-' with lights
\* of '0' and '1' and a mode flag; one with a light 'x'; one with mode flag 'x'
RoundTripMultipanelWrites ==
    {Write(<<" ", " ", "2", "5", "0", " ", "-", "1", "5", "0", "0", " ", "1", "0", "1", "0", "0", "1", "0", "1", " ", "R">>),
     Write(<<"1", "2", "3", "4", "5", " ", "-", "9", "8", "7", "6", " ", "0", "1", "0", "1", "1", "0", "1", "0", " ", "N">>),
     Write(<<"-", "1", " ", " ", " ", " ", " ", " ", " ", "0", " ", " ", "0", "0", "0", "0", "0", "0", "0", "0", " ", "R">>),
     Write(<<" ", " ", "2", "5", "0", " ", "-", "1", "5", "0", "0", " ", "1", "x", "1", "0", "0", "1", "0", "1", " ", "R">>),
     Write(<<" ", " ", " ", " ", "7", " ", "1", "2", "3", "4", "5", " ", "1", "1", "1", "1", "1", "1", "1", "1", " ", "x">>)}

\* lines written to a radiopanel: two of digits, spaces and '.'; one with a
\* '-'; one with digits behind five blanks; one with mode flag 'x'
RoundTripRadiopanelWrites ==
    {Write(<<"1", "1", "8", ".", "2", "5", " ", " ", " ", " ", " ", "1", "2", "1", ".", "5", "0", " ", " ", " ", " ", " ", "1", ".", "2", ".", "3", ".", "4", ".", "5", ".", " ", "1", "2", " ", " ", " ", " ", " ", " ", " ", " ", " ", "R">>),
     Write(<<" ", " ", "7", ".", " ", " ", " ", " ", " ", " ", " ", " ", " ", " ", " ", " ", " ", " ", " ", " ", " ", " ", "9", "9", "9", "9", "9", " ", " ", " ", " ", " ", " ", "0", ".", "0", ".", "0", ".", "0", ".", "0", ".", " ", "N">>),
     Write(<<"1", "1", "8", ".", "2", "5", " ", " ", " ", " ", " ", "1", "2", "1", ".", "5", "0", " ", " ", " ", " ", " ", "1", ".", "2", ".", "3", ".", "4", ".", "5", ".", " ", " ", "-", "1", "2", " ", " ", " ", " ", " ", " ", " ", "R">>),
     Write(<<" ", " ", " ", " ", " ", "1", "2", "3", "4", "5", " ", "1", " ", " ", " ", " ", " ", " ", " ", " ", " ", " ", "2", " ", " ", " ", " ", " ", " ", " ", " ", " ", " ", "3", " ", " ", " ", " ", " ", " ", " ", " ", " ", " ", "N">>),
     Write(<<"1", " ", " ", " ", " ", " ", " ", " ", " ", " ", " ", "2", " ", " ", " ", " ", " ", " ", " ", " ", " ", " ", "3", " ", " ", " ", " ", " ", " ", " ", " ", " ", " ", "4", " ", " ", " ", " ", " ", " ", " ", " ", " ", " ", "x">>)}

RoundTripInit ==
    /\ product_id \in {USB_DEVICE_ID_SAITEK_PROFLIGHT_MULTIPANEL,
                       USB_DEVICE_ID_SAITEK_PROFLIGHT_RADIOPANEL}
    /\ mode = "R"
    /\ multipanel = InitMultipanel
    /\ radiopanel = InitRadiopanel
    /\ dmabuf = [k \in 1..SAITEK_HID_BUF_LEN |-> 0]
    /\ lock = [writer |-> FALSE, readers |-> 0]
    /\ ev_pc = "idle"
    /\ report = NoReport
    /\ ev_ret = -1
    /\ last_report = <<>>
    /\ st_pc = "idle"
    /\ wbuf = NoWrite
    /\ st_ret = 0
    /\ sh_pc = [r \in Readers |-> "idle"]
    /\ sh_out = [r \in Readers |-> <<>>]
    /\ sh_ret = [r \in Readers |-> 0]
    /\ hid_res = 0
    /\ hid_buf = <<>>
    /\ zeroed = FALSE
    /\ last_out = <<>>
    /\ env_pc = "off"
    /\ seen = <<>>

\* a line is written
RoundTripStore ==
    /\ \E w \in (IF product_id = USB_DEVICE_ID_SAITEK_PROFLIGHT_MULTIPANEL
                 THEN RoundTripMultipanelWrites
                 ELSE RoundTripRadiopanelWrites) : StoreEnter(w)
    /\ UNCHANGED <<env_pc, seen>>

\* the line is parsed and sent; it is applied unless it is too short
RoundTripApply ==
    /\ StoreApply
    /\ seen' = IF TrueCount(wbuf.buf, wbuf.count)
                     >= (IF product_id = USB_DEVICE_ID_SAITEK_PROFLIGHT_MULTIPANEL
                         THEN 22 ELSE 45)
               THEN wbuf.buf ELSE seen
    /\ UNCHANGED env_pc

RoundTripStored == StoreExit /\ UNCHANGED <<env_pc, seen>>

\* one reader reads
RoundTripShow ==
    /\ ShowEnter(1) \/ ShowFormat(1) \/ ShowReset(1) \/ ShowExit(1)
    /\ UNCHANGED <<env_pc, seen>>

\* one of the panel's reports is delivered
RoundTripRawEvent ==
    /\ \/ \E rep \in HeldReports(product_id) : RawEventEnter(rep)
       \/ RawEventDecode
       \/ RawEventExit
    /\ UNCHANGED <<env_pc, seen>>

RoundTripNext ==
    \/ RoundTripStore
    \/ RoundTripApply
    \/ RoundTripStored
    \/ RoundTripShow
    \/ RoundTripRawEvent

SpecRoundTrip == RoundTripInit /\ [][RoundTripNext]_vars

(***************************************************************************)
(* SpecHeld: reports are delivered to a session and one reader reads it,   *)
(* in mode 'R' or in mode 'N'.                                             *)
(***************************************************************************)
HeldInit ==
    /\ product_id \in {USB_DEVICE_ID_SAITEK_PROFLIGHT_MULTIPANEL,
                       USB_DEVICE_ID_SAITEK_PROFLIGHT_RADIOPANEL}
    /\ mode \in {"N", "R"}
    /\ multipanel = InitMultipanel
    /\ radiopanel = InitRadiopanel
    /\ dmabuf = [k \in 1..SAITEK_HID_BUF_LEN |-> 0]
    /\ lock = [writer |-> FALSE, readers |-> 0]
    /\ ev_pc = "idle"
    /\ report = NoReport
    /\ ev_ret = -1
    /\ last_report = <<>>
    /\ st_pc = "idle"
    /\ wbuf = NoWrite
    /\ st_ret = 0
    /\ sh_pc = [r \in Readers |-> "idle"]
    /\ sh_out = [r \in Readers |-> <<>>]
    /\ sh_ret = [r \in Readers |-> 0]
    /\ hid_res = 0
    /\ hid_buf = <<>>
    /\ zeroed = FALSE
    /\ last_out = <<>>
    /\ env_pc = "off"
    /\ seen = NoneSeen

HeldRawEvent ==
    /\ \/ \E rep \in HeldReports(product_id) : RawEventEnter(rep)
       \/ RawEventDecode
       \/ RawEventExit
    /\ UNCHANGED <<env_pc, seen>>

HeldShow ==
    /\ ShowEnter(1) \/ ShowFormat(1) \/ ShowReset(1) \/ ShowExit(1)
    /\ UNCHANGED <<env_pc, seen>>

HeldNext == HeldRawEvent \/ HeldShow

SpecHeld == HeldInit /\ [][HeldNext]_vars

(***************************************************************************)
(* SpecWrites: the write path alone.  Callers write one line after another, *)
(* among them lines longer than required that have a new line where the    *)
(* mode flag is expected.                                                  *)
(***************************************************************************)
\* a multipanel line of 23 characters and a radiopanel line of 46 characters,
\* each with a new line in the place of the mode flag
LongWrites(product) ==
    IF product = USB_DEVICE_ID_SAITEK_PROFLIGHT_MULTIPANEL
    THEN {Write(<<"1", "2", "3", "4", "5", " ", "-", "9", "8", "7", "6", " ", "0", "1", "0", "1", "1", "0", "1", "0", " ", "\n", "y">>)}
    ELSE {Write(<<"9", "9", "9", ".", "9", "9", " ", " ", " ", " ", " ", "8", "8", "8", ".", "8", "8", " ", " ", " ", " ", " ", "7", ".", "7", ".", "7", ".", "7", ".", "7", ".", " ", "1", "2", "3", "4", "5", " ", " ", " ", " ", " ", " ", "\n", "y">>)}

\* lines whose display fields hold characters that are no digits: '.', '-',
\* 'x', a field of '.' only, and a field of ten digits
OddWrites(product) ==
    IF product = USB_DEVICE_ID_SAITEK_PROFLIGHT_MULTIPANEL
    THEN {Write(<<"x", "-", ".", "7", " ", " ", ".", ".", "0", "-", "9", " ", ".", ".", ".", ".", ".", ".", ".", ".", " ", "N">>)}
    ELSE {Write(<<".", ".", "x", "-", "7", ".", " ", " ", " ", " ", " ", ".", ".", ".", ".", ".", ".", ".", ".", ".", ".", " ", "-", ".", "-", ".", "-", ".", "-", ".", "-", ".", " ", "0", "1", "2", "3", "4", "5", "6", "7", "8", "9", " ", "N">>)}

WritesEnter ==
    /\ \E w \in Writes(product_id) \cup LongWrites(product_id)
                \cup OddWrites(product_id) : StoreEnter(w)
    /\ UNCHANGED <<env_pc, seen>>

WritesApply == StoreApply /\ UNCHANGED <<env_pc, seen>>

WritesExit == StoreExit /\ UNCHANGED <<env_pc, seen>>

WritesNext == WritesEnter \/ WritesApply \/ WritesExit

SpecWrites == Init /\ [][WritesNext]_vars

(***************************************************************************)
(* SpecEdges: runs of accepted reports.  The session starts with every     *)
(* contact open, as an all-released report leaves it, and with sample      *)
(* counts; the HID core delivers up to MaxDeliveries reports, and the      *)
(* buffers accepted are recorded in seen.                                  *)
(***************************************************************************)
\* press counter and accumulator values the session starts SpecEdges with
EdgeCounts == {<<0, 0>>, <<8, 98>>, <<8, -98>>, <<9, -99>>}

\* multipanel buffers: all released; ALT, HDG button, flaps up; VS, flaps down;
\* ALT and VS, HDG button, flaps both ways; IAS, NAV button, pitch trim up;
\* HDG, auto throttle, pitch trim down; CRS, knob right, IAS..REV buttons;
\* no mode bit, knob left, AP button; HDG and CRS, HDG button, pitch trim both
\* ways; every mode bit but ALT, knob both ways; VS and CRS, flaps down
MultipanelEdgeData ==
    {<<0, 0, 0>>, <<1, 1, 1>>, <<2, 0, 2>>, <<3, 1, 3>>, <<4, 2, 8>>,
     <<8, 128, 4>>, <<48, 124, 0>>, <<192, 0, 0>>, <<24, 1, 12>>,
     <<126, 0, 0>>, <<18, 0, 2>>}

MultipanelEdgeReports ==
    {[id |-> 0, type |-> 0, data |-> d, size |-> 3] : d \in MultipanelEdgeData}

\* radiopanel buffers: all released; COM1 on stack 0, act/stby 0, inner knob 0
\* right; COM1 on stack 1, act/stby 1, inner knob 0 left; COM1 on both, COM2
\* on stack 1, outer knob 0 right; COM2 on stack 0, NAV1 on stack 1, outer
\* knob 0 left; XPDR on both, inner knob 1 right; NAV1 and NAV2, inner knob 1
\* left; NAV2 and ADF, outer knob 1 right; ADF and DME, both act/stby, inner
\* knob 0 both ways; DME on stack 0, bits 0x40 and 0x80 of byte 1, outer knob
\* 1 left; every stack 0 bit but COM1 and COM1 on stack 1, outer knob 1 both
RadiopanelEdgeData ==
    {<<0, 0, 0>>, <<1, 64, 1>>, <<128, 128, 2>>, <<129, 1, 4>>, <<2, 2, 8>>,
     <<64, 32, 16>>, <<4, 4, 32>>, <<8, 8, 64>>, <<16, 208, 3>>,
     <<32, 192, 128>>, <<254, 63, 192>>}

RadiopanelEdgeReports ==
    {[id |-> 0, type |-> 0, data |-> d, size |-> 3] : d \in RadiopanelEdgeData}

EdgesInit ==
    /\ product_id \in {USB_DEVICE_ID_SAITEK_PROFLIGHT_MULTIPANEL,
                       USB_DEVICE_ID_SAITEK_PROFLIGHT_RADIOPANEL}
    /\ mode = "R"
    /\ seen \in {[from |-> c, reports |-> <<>>] : c \in EdgeCounts}
    /\ IF product_id = USB_DEVICE_ID_SAITEK_PROFLIGHT_MULTIPANEL
       THEN /\ multipanel = MultipanelWith(0, seen.from[1], seen.from[2])
            /\ radiopanel = InitRadiopanel
       ELSE /\ multipanel = InitMultipanel
            /\ radiopanel = RadiopanelWith(0, seen.from[1], seen.from[2])
    /\ dmabuf = [k \in 1..SAITEK_HID_BUF_LEN |-> 0]
    /\ lock = [writer |-> FALSE, readers |-> 0]
    /\ ev_pc = "idle"
    /\ report = NoReport
    /\ ev_ret = -1
    /\ last_report = <<0, 0, 0>>
    /\ st_pc = "idle"
    /\ wbuf = NoWrite
    /\ st_ret = 0
    /\ sh_pc = [r \in Readers |-> "idle"]
    /\ sh_out = [r \in Readers |-> <<>>]
    /\ sh_ret = [r \in Readers |-> 0]
    /\ hid_res = 0
    /\ hid_buf = <<>>
    /\ zeroed = FALSE
    /\ last_out = <<>>
    /\ env_pc = "off"

\* the HID core delivers one more report with id 0, type 0 and 3 bytes
EdgesDeliver ==
    /\ Len(seen.reports) < MaxDeliveries
    /\ \E rep \in (IF product_id = USB_DEVICE_ID_SAITEK_PROFLIGHT_MULTIPANEL
                   THEN MultipanelEdgeReports ELSE RadiopanelEdgeReports) :
          RawEventEnter(rep)
    /\ UNCHANGED <<env_pc, seen>>

\* the report is decoded, and recorded when it was accepted
EdgesDecode ==
    /\ RawEventDecode
    /\ seen' = IF ev_ret' = 1 THEN [seen EXCEPT !.reports = Append(@, report.data)]
               ELSE seen
    /\ UNCHANGED env_pc

EdgesExit == RawEventExit /\ UNCHANGED <<env_pc, seen>>

EdgesNext == EdgesDeliver \/ EdgesDecode \/ EdgesExit

SpecEdges == EdgesInit /\ [][EdgesNext]_vars

(***************************************************************************)
(* Properties of the report decoders and of the counters.                  *)
(***************************************************************************)
IsMultipanel == product_id = USB_DEVICE_ID_SAITEK_PROFLIGHT_MULTIPANEL
IsRadiopanel == product_id = USB_DEVICE_ID_SAITEK_PROFLIGHT_RADIOPANEL

\* the press counters of a multipanel, and its encoder accumulators
MultipanelPresses(mp) ==
    <<mp.ahdg, mp.anav, mp.aias, mp.aalt, mp.avs, mp.aapr, mp.arev, mp.aap>>
MultipanelEncoders(mp) == <<mp.flaps, mp.pitch_trim, mp.knob>>

\* the press counters of a radiopanel, and its encoder accumulators
RadiopanelPresses(rp) == <<rp.aactstby0, rp.aactstby1>>
RadiopanelEncoders(rp) ==
    <<rp.innerknob0, rp.outerknob0, rp.innerknob1, rp.outerknob1>>

\* every counter and accumulator of the session, whichever panel is attached
Counters ==
    <<MultipanelPresses(multipanel), MultipanelEncoders(multipanel),
      RadiopanelPresses(radiopanel), RadiopanelEncoders(radiopanel)>>

\* the step in which a delivered report is decoded
DecodeStep == ev_pc = "locked" /\ ev_pc' = "decoded"

\* C1: when a multipanel is handed, for the second time in a row and with
\* nothing else in between, the same 3-byte report with id 0 and type 0, the
\* second decoding is accepted and leaves every flag, the mode selector, the
\* eight press counters and the three accumulators as the first left them.
C1_RedeliveryChangesNothing ==
    [][(IsMultipanel /\ env_pc = "redelivered" /\ DecodeStep
            /\ report.id = 0 /\ report.type = 0 /\ report.size = 3
            /\ report.data = last_report)
        => (ev_ret' = 1 /\ multipanel' = multipanel)]_vars

\* the HDG button and flaps up were pressed in the report decoded twice: each
\* was counted once, and the second decoding is done
C1_Witness ==
    /\ IsMultipanel /\ env_pc = "redelivered" /\ ev_pc = "decoded"
    /\ report.data = <<1, 1, 1>> /\ last_report = <<1, 1, 1>>
    /\ multipanel.hdg = 1 /\ multipanel.ahdg = 1
    /\ multipanel.flaps_up = 1 /\ multipanel.flaps = 1
    /\ multipanel.mode = MULTIPANEL_MODE_ALT

\* C2: in every state the session can reach by deliveries, reads and writes,
\* on either panel, every encoder accumulator is within -99..99 and every
\* press counter within 0..9.
C2_CountersInRange ==
    /\ \A k \in 1..8 : MultipanelPresses(multipanel)[k] \in 0..SAITEK_MAX_BTN
    /\ multipanel.flaps \in SAITEK_MIN_FLAPS..SAITEK_MAX_FLAPS
    /\ multipanel.pitch_trim \in SAITEK_MIN_PITCH_TRIM..SAITEK_MAX_PITCH_TRIM
    /\ multipanel.knob \in SAITEK_MIN_KNOB..SAITEK_MAX_KNOB
    /\ \A k \in 1..2 : RadiopanelPresses(radiopanel)[k] \in 0..SAITEK_MAX_BTN
    /\ \A k \in 1..4 :
          RadiopanelEncoders(radiopanel)[k] \in SAITEK_MIN_KNOB..SAITEK_MAX_KNOB

\* a report was just decoded with flaps at their maximum, the pitch trim at its
\* minimum and the HDG presses at their maximum, the three contacts closed
C2_Witness ==
    /\ IsMultipanel /\ ev_pc = "decoded" /\ ev_ret = 1
    /\ multipanel.flaps = SAITEK_MAX_FLAPS /\ multipanel.flaps_up = 1
    /\ multipanel.pitch_trim = SAITEK_MIN_PITCH_TRIM
    /\ multipanel.pitch_trim_down = 1
    /\ multipanel.ahdg = SAITEK_MAX_BTN /\ multipanel.hdg = 1

\* C3: every step that changes a press counter or an accumulator is taken
\* while the session lock is held by a writer; in particular a read in mode
\* 'R' holds it as a writer when it zeroes the counters.
C3_CountersChangeUnderWriteLock ==
    [][(Counters' # Counters) => lock.writer]_vars


(***************************************************************************)
(* Properties of reads.                                                    *)
(***************************************************************************)
\* the steps of reader r: printing the text, the switch on the mode flag
FormatStep(r) == sh_pc[r] = "locked" /\ sh_pc'[r] = "formatted"
ResetStep(r) == sh_pc[r] = "formatted" /\ sh_pc'[r] = "reset"

\* n as "%+3.2d" and as "%3.2d" print it, for n in -99..99
Signed3(n) ==
    <<IF n < 0 THEN "-" ELSE "+">> \o
    <<DigitChar((IF n < 0 THEN -n ELSE n) \div 10),
      DigitChar((IF n < 0 THEN -n ELSE n) % 10)>>
Padded3(n) ==
    <<IF n < 0 THEN "-" ELSE " ">> \o
    <<DigitChar((IF n < 0 THEN -n ELSE n) \div 10),
      DigitChar((IF n < 0 THEN -n ELSE n) % 10)>>

\* the columns of a read's first line that hold the counters and accumulators
ShownCounters(out) ==
    IF IsMultipanel THEN SubSeq(out, 40, 66)
    ELSE SubSeq(out, 54, 62) \o SubSeq(out, 71, 79)

\* what those columns hold when they show the counters of panels mp and rp
CountersAsShown(mp, rp) ==
    IF IsMultipanel
    THEN Signed3(mp.flaps) \o <<" ">> \o Signed3(mp.pitch_trim) \o <<" ">> \o
         Signed3(mp.knob) \o <<" ">> \o
         <<DigitChar(mp.ahdg), " ", DigitChar(mp.anav), " ", DigitChar(mp.aias),
           " ", DigitChar(mp.aalt), " ", DigitChar(mp.avs), " ",
           DigitChar(mp.aapr), " ", DigitChar(mp.arev), " ", DigitChar(mp.aap)>>
    ELSE <<DigitChar(rp.aactstby0), " ">> \o Padded3(rp.innerknob0) \o <<" ">> \o
         Padded3(rp.outerknob0) \o
         <<DigitChar(rp.aactstby1), " ">> \o Padded3(rp.innerknob1) \o <<" ">> \o
         Padded3(rp.outerknob1)

ZeroCounters ==
    <<MultipanelPresses(InitMultipanel), MultipanelEncoders(InitMultipanel),
      RadiopanelPresses(InitRadiopanel), RadiopanelEncoders(InitRadiopanel)>>

\* C4: with the mode flag 'R' a read prints the press counters and the
\* accumulators as they stand, and its next step zeroes all of them; a read
\* that prints after such a zeroing, no report having been delivered since,
\* shows every press counter and accumulator as 0.
C4_ResetReadReturnsThenZeroes ==
    [][\A r \in Readers :
          /\ (FormatStep(r) /\ mode = "R")
                => ShownCounters(sh_out'[r]) = CountersAsShown(multipanel, radiopanel)
          /\ (ResetStep(r) /\ mode = "R") => Counters' = ZeroCounters
          /\ (FormatStep(r) /\ mode = "R" /\ zeroed)
                => ShownCounters(sh_out'[r])
                      = CountersAsShown(InitMultipanel, InitRadiopanel)]_vars

\* one read has printed counts that are not zero and has zeroed them; a second
\* read has printed since, and shows zeros
C4_Witness ==
    \E r1, r2 \in Readers :
        /\ mode = "R" /\ zeroed /\ Counters = ZeroCounters
        /\ sh_pc[r1] = "reset"
        /\ ShownCounters(sh_out[r1]) # CountersAsShown(InitMultipanel, InitRadiopanel)
        /\ sh_pc[r2] = "formatted"
        /\ ShownCounters(sh_out[r2]) = CountersAsShown(InitMultipanel, InitRadiopanel)

\* C5: with the mode flag 'N' no step of a read changes a field of the panel
\* or the mode flag, so the counters keep their values; and a read that prints
\* after another read has returned, with no report and no write in between,
\* prints the identical string.
C5_PlainReadChangesNothing ==
    [][\A r \in Readers :
          /\ (sh_pc'[r] # sh_pc[r] /\ mode = "N")
                => (multipanel' = multipanel /\ radiopanel' = radiopanel
                    /\ mode' = mode /\ dmabuf' = dmabuf)
          /\ (FormatStep(r) /\ mode = "N" /\ last_out # <<>>)
                => sh_out'[r] = last_out]_vars

\* a second read in mode 'N' has printed what the first returned, and the
\* counters it shows are not zero
C5_Witness ==
    \E r \in Readers :
        /\ mode = "N" /\ sh_pc[r] = "reset"
        /\ last_out # <<>> /\ sh_out[r] = last_out
        /\ Counters # ZeroCounters
        /\ ShownCounters(sh_out[r]) = CountersAsShown(multipanel, radiopanel)


(***************************************************************************)
(* Properties of deliveries and of writes.                                 *)
(***************************************************************************)
\* what a delivery of report rep is to return
DeliveryOutcome(rep) ==
    IF rep.id # 0 \/ rep.type # 0 THEN 0
    ELSE IF rep.size < 3 THEN -1
    ELSE 1

\* C6: a delivered report whose id or type is not 0 returns 0 (not ours)
\* whatever its length; one with id 0 and type 0 and fewer than 3 bytes
\* returns -1 (too short); any other returns 1 (accepted).  A delivery that
\* returns 0 or -1 changes no field of the session.
C6_DeliveryOutcomes ==
    [][DecodeStep
        => /\ ev_ret' = DeliveryOutcome(report)
           /\ (DeliveryOutcome(report) # 1)
                => (multipanel' = multipanel /\ radiopanel' = radiopanel
                    /\ mode' = mode /\ dmabuf' = dmabuf)]_vars

\* a 2-byte report with report id 1, with every button bit set, was returned
\* as not ours by a multipanel that still has all its fields zero
C6_Witness ==
    /\ IsMultipanel /\ ev_pc = "decoded" /\ ev_ret = 0
    /\ report.id = 1 /\ report.size = 2 /\ report.data = <<227, 255, 5>>
    /\ multipanel = InitMultipanel

\* the step in which a write parses its text and sends the feature report
ApplyStep == st_pc = "locked" /\ st_pc' = "applied"

\* the write in flight is shorter, without its trailing new line, than the
\* line its panel requires
ShortWrite ==
    TrueCount(wbuf.buf, wbuf.count) < (IF IsMultipanel THEN 22 ELSE 45)

\* C7: a write whose text, without one trailing new line, is shorter than 22
\* characters on a multipanel or 45 on a radiopanel returns an error, not the
\* number of characters consumed.
C7_ShortWriteIsRejected ==
    (st_pc = "applied" /\ ShortWrite) => st_ret < 0

\* C8: a write that is too short leaves every display digit, every light and
\* the mode flag as they were before it.
C8_ShortWriteChangesNothing ==
    [][(ApplyStep /\ ShortWrite)
        => (multipanel' = multipanel /\ radiopanel' = radiopanel
            /\ mode' = mode)]_vars

\* a multipanel line of 21 characters and a new line has been applied; the
\* displays, lights and mode flag are those of the full line written earlier
C8_Witness ==
    /\ IsMultipanel /\ st_pc = "applied"
    /\ wbuf.count = 22 /\ TrueCount(wbuf.buf, wbuf.count) = 21
    /\ SubSeq(wbuf.buf, 1, 5) = <<"1", "2", "3", "4", "5">>
    /\ multipanel.display0 = <<PANEL_DIGIT_NULL, PANEL_DIGIT_NULL, 2, 5, 0>>
    /\ multipanel.display1 = <<PANEL_DIGIT_MINUS, 1, 5, 0, 0>>
    /\ multipanel.led_hdg = 1 /\ multipanel.led_nav = 1 /\ mode = "N"

\* C9: when the transport rejects the feature report of a write, the write
\* returns the transport's error, and the displays, lights and mode flag are
\* the ones the write parsed from its text: nothing is rolled back.
C9_TransportFailureKeepsParsedState ==
    [][(ApplyStep /\ hid_res' < 0)
        => /\ st_ret' = hid_res'
           /\ IF IsMultipanel
              THEN LET parsed == saitek_buf_parse_multipanel(
                                     multipanel, mode, wbuf.buf,
                                     TrueCount(wbuf.buf, wbuf.count))
                   IN  multipanel' = parsed.panel /\ mode' = parsed.mode
              ELSE LET parsed == saitek_buf_parse_radiopanel(
                                     radiopanel, mode, wbuf.buf,
                                     TrueCount(wbuf.buf, wbuf.count))
                   IN  radiopanel' = parsed.panel /\ mode' = parsed.mode]_vars

\* the transport rejected the report of a full radiopanel line; the write
\* holds -EIO and the panel shows the digits of that line
C9_Witness ==
    /\ IsRadiopanel /\ st_pc = "applied" /\ hid_res = -EIO /\ st_ret = -EIO
    /\ wbuf.count = 45 /\ ~ShortWrite
    /\ SubSeq(wbuf.buf, 1, 6) = <<"1", "1", "8", ".", "2", "5">>
    /\ radiopanel.display0l = <<1, 1, 8 + PANEL_DIGIT_DOT, 2, 5>>
    /\ radiopanel.display1r
          = <<PANEL_DIGIT_NULL, PANEL_DIGIT_NULL, 1, 2, PANEL_DIGIT_NULL>>
    /\ mode = wbuf.buf[45]


(***************************************************************************)
(* Properties of the display codec.                                        *)
(***************************************************************************)
\* s holds only digits and the characters in others, and every '.' of s
\* stands directly after a digit
WellFormed(s, others) ==
    \A k \in 1..Len(s) :
        /\ isdigit(s[k]) \/ s[k] \in others
        /\ (s[k] = ".") => (k > 1 /\ isdigit(s[k - 1]))

RECURSIVE CanonicalFrom(_, _, _)
\* the canonical form of s from its character k on, n digit positions done
CanonicalFrom(s, k, n) ==
    IF k > Len(s) THEN [j \in 1..(5 - n) |-> " "]
    ELSE IF s[k] = "." THEN <<".">> \o CanonicalFrom(s, k + 1, n)
    ELSE IF n = 5 THEN <<>>
    ELSE <<s[k]>> \o CanonicalFrom(s, k + 1, n + 1)

\* s cut after its fifth digit position and the '.' behind it, or padded with
\* spaces to five digit positions
Canonical(s) == CanonicalFrom(s, 1, 0)

BitSet(byte, mask) == (byte \div mask) % 2 = 1

RECURSIVE FirstSetFrom(_, _, _)
\* the position in bits of the first mask from position k on that is set in
\* the byte bits[j][1] of data, each bits[j] being <<byte number, mask>>; 0 if none
FirstSetFrom(data, bits, k) ==
    IF k > Len(bits) THEN 0
    ELSE IF BitSet(data[bits[k][1] + 1], bits[k][2]) THEN k
    ELSE FirstSetFrom(data, bits, k + 1)

\* the mode at the position of the first set bit, 0 when no bit is set
FirstMode(data, bits, modes) ==
    LET k == FirstSetFrom(data, bits, 1) IN IF k = 0 THEN 0 ELSE modes[k]

\* a report has just been accepted
Accepted == ev_pc = "decoded" /\ ev_ret = 1

\* C11: after an accepted multipanel report the mode selector is the mode of
\* the first bit set in byte 0, in the order ALT (0x01), VS (0x02), IAS (0x04),
\* HDG (0x08), CRS (0x10), and 0 when none of them is set, whatever the mode
\* was before.
C11_MultipanelModePriority ==
    (IsMultipanel /\ Accepted)
        => multipanel.mode =
              FirstMode(report.data,
                        <<<<0, 1>>, <<0, 2>>, <<0, 4>>, <<0, 8>>, <<0, 16>>>>,
                        <<MULTIPANEL_MODE_ALT, MULTIPANEL_MODE_VS,
                          MULTIPANEL_MODE_IAS, MULTIPANEL_MODE_HDG,
                          MULTIPANEL_MODE_CRS>>)

\* a report with ALT and VS both set was accepted after one with VS alone,
\* and the mode is ALT
C11_Witness ==
    /\ IsMultipanel /\ Accepted
    /\ seen.reports = <<<<2, 0, 2>>, <<3, 1, 3>>>>
    /\ report.data = <<3, 1, 3>>
    /\ multipanel.mode = MULTIPANEL_MODE_ALT


\* the radiopanel modes in the order of their bits
RadiopanelModes ==
    <<RADIOPANEL_MODE_COM1, RADIOPANEL_MODE_COM2, RADIOPANEL_MODE_NAV1,
      RADIOPANEL_MODE_NAV2, RADIOPANEL_MODE_ADF, RADIOPANEL_MODE_DME,
      RADIOPANEL_MODE_XPDR>>

\* the report in flight with bit 0x80 of its byte 0 flipped
TopBitFlipped ==
    [report EXCEPT !.data[1] = IF BitSet(@, 128) THEN @ - 128 ELSE @ + 128]

\* C12: after an accepted radiopanel report the stack-0 mode is the mode of
\* the first bit set among bits 0x01..0x40 of byte 0 (COM1, COM2, NAV1, NAV2,
\* ADF, DME, XPDR), the stack-1 mode that of the first bit set among bit 0x80
\* of byte 0 and bits 0x01..0x20 of byte 1 in the same order, each 0 when no
\* bit matches; and the same report with bit 0x80 of byte 0 flipped gives the
\* same stack-0 mode.
C12_RadiopanelModeMapping ==
    [][(IsRadiopanel /\ DecodeStep /\ ev_ret' = 1)
        => /\ radiopanel'.mode0 =
                FirstMode(report.data,
                          <<<<0, 1>>, <<0, 2>>, <<0, 4>>, <<0, 8>>, <<0, 16>>,
                            <<0, 32>>, <<0, 64>>>>, RadiopanelModes)
           /\ radiopanel'.mode1 =
                FirstMode(report.data,
                          <<<<0, 128>>, <<1, 1>>, <<1, 2>>, <<1, 4>>, <<1, 8>>,
                            <<1, 16>>, <<1, 32>>>>, RadiopanelModes)
           /\ radiopanel'.mode0 =
                saitek_proflight_radiopanel_raw_event(
                    radiopanel, TopBitFlipped).panel.mode0]_vars

\* byte 0 = 0x80 was accepted after byte 0 = 0x01: stack 1 shows COM1 and
\* stack 0, which showed COM1, shows no mode
C12_Witness ==
    /\ IsRadiopanel /\ Accepted
    /\ seen.reports = <<<<1, 64, 1>>, <<128, 128, 2>>>>
    /\ radiopanel.mode1 = RADIOPANEL_MODE_COM1
    /\ radiopanel.mode0 = 0


\* the press counters of the attached panel: <<field, byte number, mask>>
PressCounters ==
    IF IsMultipanel
    THEN {<<"ahdg", 1, 1>>, <<"anav", 1, 2>>, <<"aias", 1, 4>>, <<"aalt", 1, 8>>,
          <<"avs", 1, 16>>, <<"aapr", 1, 32>>, <<"arev", 1, 64>>, <<"aap", 0, 128>>}
    ELSE {<<"aactstby0", 1, 64>>, <<"aactstby1", 1, 128>>}

\* the attached panel
Panel == IF IsMultipanel THEN multipanel ELSE radiopanel

\* the bit is set in the report in flight and was clear in the report
\* accepted last
Rising(byteno, mask) ==
    /\ BitSet(report.data[byteno + 1], mask)
    /\ ~BitSet(last_report[byteno + 1], mask)

RECURSIVE RisingEdgesFrom(_, _, _, _)
\* the rising edges of the bit in reports from the k-th report on, the bit
\* being clear before the first report
RisingEdgesFrom(reports, k, byteno, mask) ==
    IF k > Len(reports) THEN 0
    ELSE (IF /\ BitSet(reports[k][byteno + 1], mask)
             /\ (k = 1 \/ ~BitSet(reports[k - 1][byteno + 1], mask))
          THEN 1 ELSE 0)
         + RisingEdgesFrom(reports, k + 1, byteno, mask)

Min(a, b) == IF a < b THEN a ELSE b

\* C13 as the specification states it: on an accepted report a press counter
\* goes up by exactly 1 when its bit is set and was clear in the report
\* accepted before, and keeps its value on every other report.
C13_PressGoesUpByOne ==
    [][(DecodeStep /\ ev_ret' = 1)
        => \A c \in PressCounters :
              Panel'[c[1]] = IF Rising(c[2], c[3]) THEN Panel[c[1]] + 1
                             ELSE Panel[c[1]]]_vars

\* every press counter is the number of rising edges of its bit since the
\* counts the run started from, held at 9
PressesCountEdges ==
    \A c \in PressCounters :
        Panel[c[1]] = Min(SAITEK_MAX_BTN,
                          seen.from[1] + RisingEdgesFrom(seen.reports, 1, c[2], c[3]))

\* C13: on an accepted report a press counter goes up by exactly 1 when its
\* bit is set and was clear in the report accepted before, unless it is 9
\* already, where it stays 9; it keeps its value on every other report and no
\* delivery makes it go down.  So the counter is the number of rising edges
\* since its last reset, held at 9: HDG set, clear, set counts exactly 2.
C13_PressCountsRisingEdges ==
    [][/\ (DecodeStep /\ ev_ret' = 1)
            => \A c \in PressCounters :
                  Panel'[c[1]] = IF Rising(c[2], c[3]) /\ Panel[c[1]] < SAITEK_MAX_BTN
                                 THEN Panel[c[1]] + 1
                                 ELSE Panel[c[1]]
       /\ PressesCountEdges']_vars

\* the HDG bit was set, clear and set again in three accepted reports, and
\* the HDG presses went from 0 to 2
C13_Witness ==
    /\ IsMultipanel /\ Accepted
    /\ seen = [from |-> <<0, 0>>,
               reports |-> <<<<1, 1, 1>>, <<0, 0, 0>>, <<1, 1, 1>>>>]
    /\ multipanel.ahdg = 2 /\ multipanel.hdg = 1


\* the encoder accumulators of the attached panel: <<field, byte number and
\* mask of the increase signal, byte number and mask of the decrease signal>>
Encoders ==
    IF IsMultipanel
    THEN {<<"flaps", 2, 1, 2, 2>>, <<"pitch_trim", 2, 8, 2, 4>>,
          <<"knob", 0, 32, 0, 64>>}
    ELSE {<<"innerknob0", 2, 1, 2, 2>>, <<"outerknob0", 2, 4, 2, 8>>,
          <<"innerknob1", 2, 16, 2, 32>>, <<"outerknob1", 2, 64, 2, 128>>}

\* C14: on an accepted report, a rising edge on the increase signal of an
\* encoder alone adds exactly 1 to its accumulator unless that is 99, where it
\* stays 99; a rising edge on its decrease signal alone subtracts exactly 1
\* unless it is -99, where it stays -99; with no rising edge on either signal
\* the accumulator keeps its value.  It never leaves -99..99.
C14_EncoderStepsAndSaturates ==
    [][(DecodeStep /\ ev_ret' = 1)
        => \A e \in Encoders :
              LET up == Rising(e[2], e[3])
                  down == Rising(e[4], e[5])
                  old == Panel[e[1]]
                  new == Panel'[e[1]]
              IN  /\ (up /\ ~down)
                        => new = IF old = SAITEK_MAX_KNOB THEN old ELSE old + 1
                  /\ (down /\ ~up)
                        => new = IF old = SAITEK_MIN_KNOB THEN old ELSE old - 1
                  /\ (~up /\ ~down) => new = old
                  /\ new \in SAITEK_MIN_KNOB..SAITEK_MAX_KNOB]_vars

\* flaps up was closed, opened and closed again from 98: the second edge
\* found the flaps at 99 and left them there
C14_Witness ==
    /\ IsMultipanel /\ Accepted
    /\ seen = [from |-> <<8, 98>>,
               reports |-> <<<<1, 1, 1>>, <<0, 0, 0>>, <<1, 1, 1>>>>]
    /\ multipanel.flaps = SAITEK_MAX_FLAPS /\ multipanel.flaps_up = 1


\* a report decode is between its SAITEK_LOCK_WRITE and its SAITEK_UNLOCK_WRITE
DecodeInProgress == ev_pc # "idle"

\* a write is between its SAITEK_LOCK_WRITE and its SAITEK_UNLOCK_WRITE
WriteInProgress == st_pc # "idle"

\* reader r is between its SAITEK_LOCK_READ and its SAITEK_UNLOCK_READ
ReadInProgress(r) == sh_pc[r] # "idle"

\* C15: while a report decode or a write-parse of the session is in progress
\* it holds the session lock as the writer, and no other decode, write-parse
\* or read-format of the session is in progress.
C15_DecodeAndWriteAreExclusive ==
    (DecodeInProgress \/ WriteInProgress)
        => /\ lock.writer /\ lock.readers = 0
           /\ ~(DecodeInProgress /\ WriteInProgress)
           /\ \A r \in Readers : ~ReadInProgress(r)

\* a report is being decoded in a session that was written to before (the
\* mode is no longer the one attach set), while a write and the reads wait
C15_Witness ==
    /\ ev_pc = "decoded" /\ ev_ret = 1
    /\ mode = "N" /\ st_pc = "idle"
    /\ lock.writer


(***************************************************************************)
(* Properties of the feature reports.                                      *)
(***************************************************************************)
\* the lights of the multipanel and the bit each has in the light byte
LightBits ==
    {<<"led_ap", 1>>, <<"led_hdg", 2>>, <<"led_nav", 4>>, <<"led_ias", 8>>,
     <<"led_alt", 16>>, <<"led_vs", 32>>, <<"led_apr", 64>>, <<"led_rev", 128>>}

\* C16: the feature report a multipanel write hands to the transport is 13
\* bytes: byte 0 is 0, bytes 1..5 are the digit codes of display 0, bytes
\* 6..10 those of display 1, byte 11 has bit 0x01 for AP, 0x02 HDG, 0x04 NAV,
\* 0x08 IAS, 0x10 ALT, 0x20 VS, 0x40 APR, 0x80 REV, each set exactly when
\* that light is on, and byte 12 is 0.
C16_MultipanelReportLayout ==
    (st_pc = "applied" /\ IsMultipanel)
        => /\ Len(hid_buf) = 13
           /\ hid_buf[1] = 0
           /\ \A k \in 1..5 : /\ hid_buf[1 + k] = multipanel.display0[k]
                              /\ hid_buf[6 + k] = multipanel.display1[k]
           /\ hid_buf[12] \in 0..255
           /\ \A l \in LightBits : BitSet(hid_buf[12], l[2]) <=> multipanel[l[1]] = 1
           /\ hid_buf[13] = 0

\* the line "  250 -1500 10100101 R" was written: HDG, IAS, APR and AP are on
C16_Witness ==
    /\ st_pc = "applied" /\ IsMultipanel /\ ~ShortWrite
    /\ hid_buf = <<0, PANEL_DIGIT_NULL, PANEL_DIGIT_NULL, 2, 5, 0,
                   PANEL_DIGIT_MINUS, 1, 5, 0, 0, 75, 0>>

LightOrder ==
    <<"led_hdg", "led_nav", "led_ias", "led_alt", "led_vs", "led_apr", "led_rev",
      "led_ap">>

\* C18: when a multipanel write of at least 22 characters is applied, each of
\* the 8 lights is on after it if its character is '1', off if its character
\* is '0', and as it was before for any other character, whatever the
\* characters of the other lights are.
C18_LightCharacters ==
    [][(ApplyStep /\ IsMultipanel /\ ~ShortWrite)
        => \A i \in 1..8 :
              LET c == wbuf.buf[12 + i]
                  light == LightOrder[i]
              IN  multipanel'[light] = IF c = "1" THEN 1
                                       ELSE IF c = "0" THEN 0
                                       ELSE multipanel[light]]_vars

\* the line with the lights "x1x0xxx0" was applied to a multipanel whose HDG,
\* IAS, APR and AP lights were on: NAV went on, AP went off, the others stayed
C18_Witness ==
    /\ st_pc = "applied" /\ IsMultipanel /\ ~ShortWrite
    /\ SubSeq(wbuf.buf, 13, 20) = <<"x", "1", "x", "0", "x", "x", "x", "0">>
    /\ multipanel.led_hdg = 1 /\ multipanel.led_nav = 1 /\ multipanel.led_ias = 1
    /\ multipanel.led_alt = 0 /\ multipanel.led_vs = 0 /\ multipanel.led_apr = 1
    /\ multipanel.led_rev = 0 /\ multipanel.led_ap = 0


\* the mode flag character of the write in flight: character 21 of a
\* multipanel line, character 44 of a radiopanel line
ModeChar == wbuf.buf[IF IsMultipanel THEN 22 ELSE 45]

\* C19: the mode flag is 'N' or 'R' from attach on.  It changes in no step
\* but the one that applies a write of at least the required length whose mode
\* flag character is 'N' or 'R', and after that step it is that character;
\* a write with any other mode flag character leaves it as it was.
C19_ModeFlag ==
    /\ mode \in {"N", "R"}
    /\ [][/\ mode' \in {"N", "R"}
          /\ (mode' # mode) => (ApplyStep /\ ~ShortWrite)
          /\ (ApplyStep /\ ~ShortWrite)
                => mode' = IF ModeChar \in {"N", "R"} THEN ModeChar ELSE mode]_vars

\* a multipanel line whose mode flag character is 'x' was applied after a
\* write had set the flag to 'N': the flag is still 'N'
C19_Witness ==
    /\ st_pc = "applied" /\ IsMultipanel /\ ~ShortWrite
    /\ ModeChar = "x" /\ mode = "N"


\* the length a line of the attached panel is required to have
RequiredLength == IF IsMultipanel THEN 22 ELSE 45

\* the write in flight has had the effect that the write of line, count
\* characters long, has on the session as it was before the step
AppliedAs(line, count) ==
    IF IsMultipanel
    THEN LET parsed == saitek_buf_parse_multipanel(multipanel, mode, line,
                                                   TrueCount(line, count))
         IN  /\ multipanel' = parsed.panel /\ mode' = parsed.mode
             /\ dmabuf' = MultipanelReport(parsed.panel)
             /\ radiopanel' = radiopanel
    ELSE LET parsed == saitek_buf_parse_radiopanel(radiopanel, mode, line,
                                                   TrueCount(line, count))
         IN  /\ radiopanel' = parsed.panel /\ mode' = parsed.mode
             /\ dmabuf' = SubSeq(RadiopanelReport(parsed.panel),
                                 1, SAITEK_HID_BUF_LEN)
             /\ multipanel' = multipanel

\* C20 as stated: a write of more than 22 characters to a multipanel, or of
\* more than 45 to a radiopanel, is accepted and leaves the session in the
\* state the write of its first 22 or 45 characters alone would leave.
C20_LongWriteIsItsPrefix ==
    [][(ApplyStep /\ wbuf.count > RequiredLength)
        => /\ ~ShortWrite
           /\ AppliedAs(SubSeq(wbuf.buf, 1, RequiredLength), RequiredLength)]_vars

\* C20: a write of more than 22 characters to a multipanel, or of more than
\* 45 to a radiopanel, is accepted; if its 22nd or 45th character, the one in
\* the place of the mode flag, is not a new line, it leaves the session in the
\* state the write of its first 22 or 45 characters alone would leave.
C20_LongWriteIsItsPrefixBarNewLine ==
    [][(ApplyStep /\ wbuf.count > RequiredLength)
        => /\ ~ShortWrite
           /\ (wbuf.buf[RequiredLength] # "\n")
                => AppliedAs(SubSeq(wbuf.buf, 1, RequiredLength),
                             RequiredLength)]_vars

\* a radiopanel line of 47 characters that ends in "Rxy" was applied: the
\* displays show its first 44 characters and the mode flag is its 45th
C20_Witness ==
    /\ st_pc = "applied" /\ IsRadiopanel /\ wbuf.count = 47
    /\ SubSeq(wbuf.buf, 45, 47) = <<"R", "x", "y">>
    /\ hid_res = 23 /\ st_ret = 47 /\ mode = "R"
    /\ radiopanel.display0l = <<1, 1, 8 + PANEL_DIGIT_DOT, 2, 5>>
    /\ radiopanel.display1r
          = <<PANEL_DIGIT_NULL, PANEL_DIGIT_NULL, 1, 2, PANEL_DIGIT_NULL>>


(***************************************************************************)
(* Properties of the display codec.                                        *)
(***************************************************************************)
\* the digit code a character is to be given: the digit's value, minus for
\* '-', blank for ' ' and for every other character
EncodeChar(c) ==
    IF isdigit(c) THEN DigitVal(c)
    ELSE IF c = "-" THEN PANEL_DIGIT_MINUS
    ELSE PANEL_DIGIT_NULL

\* the same without a minus: blank for every character that is not a digit
EncodeCharNoMinus(c) == IF isdigit(c) THEN DigitVal(c) ELSE PANEL_DIGIT_NULL

NotDot(c) == c # "."

\* the characters of text that take a digit of a radiopanel display: all but
\* the '.', except a '.' that begins the text
DigitChars(text) ==
    IF text # <<>> /\ text[1] = "."
    THEN <<".">> \o SelectSeq(Tail(text), NotDot)
    ELSE SelectSeq(text, NotDot)

\* the characters of the parsed text that take a digit, one by one
Slots == IF IsMultipanel THEN wbuf.buf ELSE DigitChars(wbuf.buf)

\* the display the text was parsed into
ParsedDisplay == IF IsMultipanel THEN multipanel.display0 ELSE radiopanel.display0l

\* a digit code without its decimal-point flag
Base(code) == code % 16

DecodeChar(d) ==
    IF 0 <= d /\ d < 10 THEN DigitChar(d)
    ELSE IF d = PANEL_DIGIT_MINUS THEN "-"
    ELSE IF d = PANEL_DIGIT_NULL THEN " "
    ELSE "?"

\* the byte has the decimal-point flag in its high four bits
Dotted(code) == (code \div 16) * 16 = PANEL_DIGIT_DOT

\* the character printed for digit k of the formatted display: on a
\* radiopanel each digit with the decimal-point flag before it has put one
\* more character, its '.', into the text
PrintedFor(k) ==
    IF IsMultipanel THEN sh_out[1][k]
    ELSE sh_out[1][k + Cardinality({j \in 1..(k - 1) : Dotted(ParsedDisplay[j])})]

ValidDigitCode(code) ==
    /\ code \in 0..255
    /\ Base(code) \in (0..9) \cup {PANEL_DIGIT_MINUS, PANEL_DIGIT_NULL}
    /\ code \div 16 \in {0, PANEL_DIGIT_DOT \div 16}

\* the displays of the attached panel
Displays ==
    IF IsMultipanel THEN {multipanel.display0, multipanel.display1}
    ELSE {radiopanel.display0l, radiopanel.display0r,
          radiopanel.display1l, radiopanel.display1r}

\* C23: in every state a sequence of writes reaches, every digit of every
\* display is a valid digit code: 0..9, minus (0x0e) or blank (0x0f), with
\* or without the decimal-point flag and with nothing else.
C23_DigitsAreValid ==
    \A d \in Displays : Len(d) = 5 /\ \A k \in 1..5 : ValidDigitCode(d[k])

\* a radiopanel has applied the line whose fields are "..x-7.", "..........",
\* "-.-.-.-.-." and "0123456789"
C23_Witness ==
    /\ st_pc = "applied" /\ IsRadiopanel
    /\ radiopanel.display0l
          = <<223, PANEL_DIGIT_NULL, PANEL_DIGIT_NULL, 215, PANEL_DIGIT_NULL>>
    /\ radiopanel.display0r = <<223, PANEL_DIGIT_NULL, PANEL_DIGIT_NULL,
                                PANEL_DIGIT_NULL, PANEL_DIGIT_NULL>>
    /\ radiopanel.display1l = <<223, 223, 223, 223, 223>>
    /\ radiopanel.display1r = <<0, 1, 2, 3, 4>>


\* the positions in text of the characters that take a digit of a radiopanel
\* display: every character but the '.', and a '.' that begins the text
SlotPositions(text) == {i \in 1..Len(text) : text[i] # "." \/ i = 1}

\* the position in text of the character that takes digit 5
FifthSlot(text) ==
    CHOOSE p \in SlotPositions(text) :
        Cardinality({q \in SlotPositions(text) : q <= p}) = 5

\* C24: parsing a text of up to 10 characters into a radiopanel display sets
\* all 5 digits.  When the text has fewer than 5 characters that take a
\* digit, the digits left are blank.  Otherwise digit 5 has the decimal-point
\* flag exactly when a '.' follows directly the character that gave digit 5,
\* and the display is the one the text cut after that next character gives:
\* every later character is ignored.
C24_RadiopanelFieldFillsFiveDigits ==
    (env_pc = "parsed" /\ IsRadiopanel)
        => LET text == wbuf.buf
               d == radiopanel.display0l
           IN  /\ Len(d) = 5
               /\ \A k \in 1..5 : (k > Len(Slots)) => d[k] = PANEL_DIGIT_NULL
               /\ (Cardinality(SlotPositions(text)) >= 5)
                    => LET p == FifthSlot(text)
                           cut == SubSeq(text, 1, Min(p + 1, Len(text)))
                       IN  /\ Dotted(d[5]) <=> (p < Len(text) /\ text[p + 1] = ".")
                           /\ d = saitek_parse_radiopanel_display(
                                      InitRadiopanel.display0l, cut, Len(cut))

\* a radiopanel has parsed "12345.6": the '.' after the fifth digit set its
\* decimal point and the 6 was ignored
C24_Witness ==
    /\ env_pc = "parsed" /\ IsRadiopanel
    /\ wbuf.buf = <<"1", "2", "3", "4", "5", ".", "6">>
    /\ radiopanel.display0l = <<1, 2, 3, 4, 5 + PANEL_DIGIT_DOT>>


(***************************************************************************)
(* Properties of the momentary flags.                                      *)
(***************************************************************************)
\* the momentary flags of the multipanel: <<field, byte number, mask>>
MultipanelFlagBits ==
    {<<"hdg", 1, 1>>, <<"nav", 1, 2>>, <<"ias", 1, 4>>, <<"alt", 1, 8>>,
     <<"vs", 1, 16>>, <<"apr", 1, 32>>, <<"rev", 1, 64>>, <<"ap", 0, 128>>,
     <<"auto_throttle", 1, 128>>, <<"flaps_up", 2, 1>>, <<"flaps_down", 2, 2>>,
     <<"pitch_trim_up", 2, 8>>, <<"pitch_trim_down", 2, 4>>,
     <<"knob_right", 0, 32>>, <<"knob_left", 0, 64>>}

\* C25: after a multipanel has accepted a report each momentary flag is 1
\* exactly when its bit is set in that report: HDG, NAV, IAS, ALT, VS, APR,
\* REV in byte 1 bits 0x01..0x40, AP in byte 0 bit 0x80, auto-throttle in
\* byte 1 bit 0x80, flaps up and down in byte 2 bits 0x01 and 0x02, pitch
\* trim up and down in byte 2 bits 0x08 and 0x04, knob right and left in byte
\* 0 bits 0x20 and 0x40.  The report 01 00 00 leaves every flag 0, every
\* press counter and accumulator as it was, and the mode ALT.
C25_FlagsFollowTheReport ==
    [][(DecodeStep /\ IsMultipanel /\ ev_ret' = 1)
        => /\ \A f \in MultipanelFlagBits :
                 multipanel'[f[1]] = (IF BitSet(report.data[f[2] + 1], f[3]) THEN 1 ELSE 0)
           /\ (report.data = <<1, 0, 0>>)
                 => /\ \A f \in MultipanelFlagBits : multipanel'[f[1]] = 0
                    /\ MultipanelPresses(multipanel') = MultipanelPresses(multipanel)
                    /\ MultipanelEncoders(multipanel') = MultipanelEncoders(multipanel)
                    /\ multipanel'.mode = MULTIPANEL_MODE_ALT]_vars

\* a multipanel that held the counts 3 and -98 has accepted 01 00 00: the
\* flags are 0, the counts are the ones it had
C25_Witness ==
    /\ IsMultipanel /\ Accepted /\ env_pc = "delivered"
    /\ report.data = <<1, 0, 0>>
    /\ multipanel = [MultipanelWith(0, 3, -98) EXCEPT !.mode = MULTIPANEL_MODE_ALT]


(***************************************************************************)
(* Properties of the text a read returns.                                  *)
(***************************************************************************)
\* the fields of the text of a radiopanel, <<first position, width>>: four
\* displays, mode flag, then for each stack the act/stby flag, its counter,
\* the inner and the outer knob and the mode name
RadiopanelFields ==
    {<<6, 10>>, <<17, 10>>, <<28, 10>>, <<39, 10>>, <<50, 1>>, <<52, 1>>,
     <<54, 1>>, <<56, 3>>, <<60, 3>>, <<64, 4>>, <<69, 1>>, <<71, 1>>,
     <<73, 3>>, <<77, 3>>, <<81, 4>>}

\* the fields of the text of a multipanel: two displays, lights, mode flag,
\* buttons, auto-throttle, three accumulators, eight counters, the mode name;
\* then line by line the mode name, each button's switch and counter, the
\* auto-throttle switch and the three accumulators
MultipanelFields ==
    {<<6, 5>>, <<12, 5>>, <<18, 8>>, <<27, 1>>, <<29, 8>>, <<38, 1>>,
     <<40, 3>>, <<44, 3>>, <<48, 3>>, <<52, 1>>, <<54, 1>>, <<56, 1>>,
     <<58, 1>>, <<60, 1>>, <<62, 1>>, <<64, 1>>, <<66, 1>>, <<68, 3>>,
     <<102, 3>>, <<110, 3>>, <<115, 1>>, <<122, 3>>, <<127, 1>>,
     <<134, 3>>, <<139, 1>>, <<146, 3>>, <<151, 1>>, <<157, 3>>,
     <<162, 1>>, <<169, 3>>, <<174, 1>>, <<181, 3>>, <<186, 1>>,
     <<192, 3>>, <<197, 1>>, <<214, 3>>, <<224, 3>>, <<239, 3>>,
     <<248, 3>>}

TextFields == IF IsMultipanel THEN MultipanelFields ELSE RadiopanelFields

\* the text of a panel that has all its fields zero
BlankText ==
    IF IsMultipanel THEN MultipanelText(InitMultipanel, "R")
    ELSE RadiopanelText(InitRadiopanel, "R")

\* position i of the text lies in one of its fields
InField(i) == \E f \in TextFields : f[1] <= i /\ i < f[1] + f[2]

\* the text is as long as the one of a blank panel and, outside the fields,
\* holds the same characters at the same positions
FixedLayout(out) ==
    LET blank == BlankText
    IN  /\ Len(out) = Len(blank)
        /\ \A i \in 1..Len(out) : InField(i) \/ out[i] = blank[i]

\* the length of the text when every mode name takes w characters: the
\* radiopanel prints two mode names, the multipanel prints its mode twice
TextLength(w) == IF IsMultipanel THEN 244 + 2 * w ELSE 76 + 2 * w

\* C26 as stated: the text a read produces has the same length and the same
\* characters between its fields in every state, and each mode name takes 4
\* characters on both panels.
C26_FixedLayoutFourCharacterModes ==
    \A r \in Readers :
        (sh_pc[r] \in {"formatted", "reset"})
            => FixedLayout(sh_out[r]) /\ Len(sh_out[r]) = TextLength(4)

\* C26: the text a read produces has the same length and the same characters
\* between its fields in every state: every accumulator, counter, flag and
\* mode name keeps its width.  A mode name takes 4 characters on a radiopanel
\* and 3 on a multipanel, when the mode is 0 too.
C26_FixedLayout ==
    \A r \in Readers :
        (sh_pc[r] \in {"formatted", "reset"})
            => /\ FixedLayout(sh_out[r])
               /\ Len(sh_out[r]) = TextLength(IF IsMultipanel THEN 3 ELSE 4)
               /\ sh_ret[r] = Len(sh_out[r])

\* a radiopanel with mode 0 on its first stack and COM1 on the second, 9
\* presses and -99 on the knobs was printed: the first mode name is 4 blanks
C26_Witness ==
    /\ IsRadiopanel /\ sh_pc[1] = "formatted"
    /\ radiopanel.mode0 = 0 /\ radiopanel.mode1 = RADIOPANEL_MODE_COM1
    /\ radiopanel.aactstby0 = SAITEK_MAX_BTN /\ radiopanel.innerknob0 = SAITEK_MIN_KNOB
    /\ SubSeq(sh_out[1], 52, 67)
          = <<"1", " ", "9", " ", "-", "9", "9", " ", "-", "9", "9", " ",
              " ", " ", " ", " ">>
    /\ SubSeq(sh_out[1], 81, 84) = <<"C", "O", "M", "1">>


(***************************************************************************)
(* Termination of the operations on a session.                             *)
(***************************************************************************)
\* C27: under a fair semaphore every started operation on a session (report
\* delivery, read, write, attach, detach) eventually completes, a detach that
\* runs while a read, a write or a delivery is in flight included.
C27_EveryOperationCompletes ==
    /\ \A r \in Readers : (sh_pc[r] # "idle") ~> (sh_pc[r] = "idle")
    /\ (st_pc # "idle") ~> (st_pc = "idle")
    /\ (ev_pc # "idle") ~> (ev_pc = "idle")
    /\ (env_pc = "probing") ~> (env_pc = "attached")
    /\ (env_pc \in {"rm_called", "rm_locked", "rm_stopped", "rm_removed"})
          ~> (env_pc = "detached")


(***************************************************************************)
(* The feature report and the buffer it is built in.                       *)
(***************************************************************************)
\* C28: building a feature report never writes outside the outgoing buffer:
\* on both panels the bytes stored and handed to the transport (hid_buf holds
\* them, one for each index from 0 to the length passed) are not more than
\* the SAITEK_HID_BUF_LEN bytes dmabuf was allocated with at attach.
C28_ReportStaysInsideTheBuffer ==
    (st_pc = "applied")
        => /\ Len(dmabuf) = SAITEK_HID_BUF_LEN
           /\ Len(hid_buf) <= SAITEK_HID_BUF_LEN


(***************************************************************************)
(* Reads in mode 'R' and the edges they report.                            *)
(***************************************************************************)
\* C29: in mode 'R', under any interleaving of deliveries and reads, and while
\* the counter is below its bound, the presses reported by the completed
\* reads add up to the press edges decoded before the last of them (the edges
\* decoded since are still in the counter): no edge is reported by two reads
\* and none is lost.
C29_EveryEdgeIsReportedOnce ==
    (\A r \in Readers : sh_pc[r] = "idle")
        => seen.reported + PressCount = seen.edges


(***************************************************************************)
(* Both signals of an encoder in one report.                               *)
(***************************************************************************)
\* C30 as stated: an accepted report with a rising edge on both the increase
\* and the decrease signal of an encoder leaves its accumulator unchanged, at
\* every value from -99 to 99.
C30_BothEdgesCancel ==
    [][(DecodeStep /\ ev_ret' = 1)
        => \A e \in Encoders :
              (Rising(e[2], e[3]) /\ Rising(e[4], e[5]))
                  => Panel'[e[1]] = Panel[e[1]]]_vars

\* C30: an accepted report with a rising edge on both the increase and the
\* decrease signal of an encoder leaves its accumulator unchanged at every
\* value from -99 to 98; at 99 the increase has no effect and the decrease
\* leaves 98.
C30_BothEdgesCancelBelowMax ==
    [][(DecodeStep /\ ev_ret' = 1)
        => \A e \in Encoders :
              (Rising(e[2], e[3]) /\ Rising(e[4], e[5]))
                  => Panel'[e[1]] = IF Panel[e[1]] = SAITEK_MAX_KNOB
                                    THEN SAITEK_MAX_KNOB - 1
                                    ELSE Panel[e[1]]]_vars

\* the flaps went from 98 to 99, both flaps signals opened, then both closed
\* in one report: the flaps are at 98
C30_Witness ==
    /\ IsMultipanel /\ Accepted
    /\ seen = [from |-> <<8, 98>>,
               reports |-> <<<<1, 1, 1>>, <<0, 0, 0>>, <<3, 1, 3>>>>]
    /\ multipanel.flaps = SAITEK_MAX_FLAPS - 1
    /\ multipanel.flaps_up = 1 /\ multipanel.flaps_down = 1


(***************************************************************************)
(* The attach and the semaphore.                                           *)
(***************************************************************************)
\* C31: the attach returns 0 only when the session is fully set up (panel
\* data, outgoing buffer, lock, attribute file, transport started,
\* initialized = 1); when a step has failed it returns a non-zero error and
\* initialized is 0.
C31_AttachSucceedsOnlySetUp ==
    (env_pc = "returned")
        => IF seen.done = FullSetUp /\ seen.initialized = 1
           THEN seen.res = 0
           ELSE seen.res # 0 /\ seen.initialized = 0


\* the attach or the detach is between its SAITEK_LOCK_WRITE and its
\* SAITEK_UNLOCK_WRITE
AttachHoldsLock == env_pc \in {"pr_locked", "pr_created", "pr_failed", "pr_started"}
DetachHoldsLock == env_pc \in {"rm_locked", "rm_done"}

\* no attach, detach, delivery, write or read is in progress
NoOperation ==
    /\ env_pc \in {"unbound", "returned", "detached"}
    /\ ev_pc = "idle" /\ st_pc = "idle"
    /\ \A r \in Readers : sh_pc[r] = "idle"

\* C32: every operation that takes the semaphore releases it exactly once
\* before it returns, on its error paths too: the semaphore is held for
\* writing just while an attach, a detach, a delivery or a write is past its
\* SAITEK_LOCK_WRITE, it is held for reading by just the reads in progress,
\* and it is free whenever no operation is in progress.
C32_LockReleasedOnEveryPath ==
    /\ lock.writer = (AttachHoldsLock \/ DetachHoldsLock \/ ev_pc # "idle" \/ st_pc # "idle")
    /\ lock.readers = Cardinality({r \in Readers : sh_pc[r] # "idle"})
    /\ NoOperation => lock = [writer |-> FALSE, readers |-> 0]

\* the attach has returned the error of saitek_proflight_hid_start through
\* fail_dev: the attribute file is gone and the semaphore is free
C32_Witness ==
    /\ env_pc = "returned" /\ seen.res = -EIO
    /\ "file" \notin seen.done /\ "lock" \in seen.done
    /\ NoOperation
    /\ lock = [writer |-> FALSE, readers |-> 0]


(***************************************************************************)
(* The line written and the text read.                                     *)
(***************************************************************************)
\* the display fields of a line: <<first position, width>>
DisplayFields ==
    IF IsMultipanel THEN {<<1, 5>>, <<7, 5>>}
    ELSE {<<1, 10>>, <<12, 10>>, <<23, 10>>, <<34, 10>>}

\* the positions of the separators, of the light characters and of the mode
\* flag character of a line
SeparatorPositions == IF IsMultipanel THEN {6, 12, 21} ELSE {11, 22, 33, 44}
LightPositions == IF IsMultipanel THEN 13..20 ELSE {}
ModeFlagPosition == IF IsMultipanel THEN 22 ELSE 45

\* the field is made of digits and the characters in others and is its own
\* canonical form, padded with spaces to the width of the field
CanonicalField(f, others) ==
    /\ WellFormed(f, others)
    /\ LET c == Canonical(f)
       IN  /\ Len(c) <= Len(f)
           /\ f = c \o [k \in 1..(Len(f) - Len(c)) |-> " "]

\* line W is a canonical payload whose display fields hold digits and the
\* characters in others
CanonicalPayload(W, others) ==
    /\ Len(W) = ModeFlagPosition
    /\ \A f \in DisplayFields : CanonicalField(SubSeq(W, f[1], f[1] + f[2] - 1), others)
    /\ \A k \in SeparatorPositions : W[k] = " "
    /\ \A k \in LightPositions : W[k] \in {"0", "1"}
    /\ W[ModeFlagPosition] \in {"N", "R"}

\* the text of the read in progress, after its panel tag, begins with W
ReadBeginsWith(W) ==
    /\ Len(sh_out[1]) >= 5 + Len(W)
    /\ SubSeq(sh_out[1], 6, 5 + Len(W)) = W

Held(byteno, mask) ==
    /\ BitSet(report.data[byteno + 1], mask)
    /\ BitSet(last_report[byteno + 1], mask)

\* C34: a read in mode 'R' zeroes the counters and keeps the remembered state
\* of every signal: in the first report accepted after it, a button that was
\* pressed in the last report before the read and still is leaves its press
\* counter 0, and an encoder with a signal held and no signal rising leaves
\* its accumulator 0.
C34_HeldSignalsDoNotCount ==
    [][(DecodeStep /\ ev_ret' = 1 /\ zeroed /\ last_report # <<>>)
        => /\ \A c \in PressCounters :
                 Held(c[2], c[3]) => Panel[c[1]] = 0 /\ Panel'[c[1]] = 0
           /\ \A e \in Encoders :
                 ((Held(e[2], e[3]) \/ Held(e[4], e[5]))
                      /\ ~Rising(e[2], e[3]) /\ ~Rising(e[4], e[5]))
                 => Panel[e[1]] = 0 /\ Panel'[e[1]] = 0]_vars

\* a multipanel has accepted the report with every button pressed, flaps up
\* and pitch trim down a second time, a resetting read having come in
\* between: the flags are set and the counters are 0
C34_Witness ==
    /\ IsMultipanel /\ Accepted
    /\ report.data = <<227, 255, 5>> /\ last_report = <<227, 255, 5>>
    /\ multipanel.hdg = 1 /\ multipanel.ahdg = 0 /\ multipanel.aap = 0
    /\ multipanel.flaps_up = 1 /\ multipanel.flaps = 0
    /\ multipanel.pitch_trim_down = 1 /\ multipanel.pitch_trim = 0


(***************************************************************************)
(* What each kind of operation leaves alone.                               *)
(***************************************************************************)
\* the display digits and the light states of the attached panel
DisplayAndLightFields ==
    IF IsMultipanel
    THEN {"display0", "display1", "led_hdg", "led_nav", "led_ias", "led_alt",
          "led_vs", "led_apr", "led_rev", "led_ap"}
    ELSE {"display0l", "display0r", "display1l", "display1r"}

\* the button flags of the attached panel
ButtonFlags ==
    IF IsMultipanel
    THEN {"hdg", "nav", "ias", "alt", "vs", "apr", "rev", "ap", "auto_throttle"}
    ELSE {"actstby0", "actstby1"}

\* the remembered states of the encoder signals of the attached panel
SignalFlags ==
    IF IsMultipanel
    THEN {"flaps_up", "flaps_down", "pitch_trim_up", "pitch_trim_down",
          "knob_right", "knob_left"}
    ELSE {"innerknob0_right", "innerknob0_left", "outerknob0_right",
          "outerknob0_left", "innerknob1_right", "innerknob1_left",
          "outerknob1_right", "outerknob1_left"}

\* the mode selectors of the attached panel
ModeSelectors == IF IsMultipanel THEN {"mode"} ELSE {"mode0", "mode1"}

\* the press counters and the encoder accumulators of the attached panel
CountFields == {c[1] : c \in PressCounters} \cup {e[1] : e \in Encoders}

\* the step leaves these fields of the attached panel as they were, and the
\* other panel's data whole
Keeps(fields) ==
    /\ \A f \in fields : Panel'[f] = Panel[f]
    /\ IsMultipanel => radiopanel' = radiopanel
    /\ IsRadiopanel => multipanel' = multipanel

\* a step of a report delivery, of a write, of a read
DeliveryStep == ev_pc' # ev_pc
WriteStep == st_pc' # st_pc
ReadStep == sh_pc' # sh_pc

\* C35: no step of a report delivery changes a display digit, a light state
\* or the mode flag; no step of a write changes a button flag, a remembered
\* signal state, a mode selector, a press counter or an encoder accumulator;
\* no step of a read changes a display digit, a light state, the mode flag,
\* a button flag or a mode selector.
C35_OperationsTouchDisjointParts ==
    [][/\ DeliveryStep => Keeps(DisplayAndLightFields) /\ mode' = mode
       /\ WriteStep => Keeps(ButtonFlags \cup SignalFlags \cup ModeSelectors
                                 \cup CountFields)
       /\ ReadStep => /\ Keeps(DisplayAndLightFields \cup ButtonFlags
                                    \cup ModeSelectors)
                      /\ mode' = mode]_vars

\* a multipanel with buttons pressed, presses counted, the flaps moved and a
\* mode selected has just applied a write that changed its displays, its
\* lights and the mode flag
C35_Witness ==
    /\ IsMultipanel /\ st_pc = "applied"
    /\ multipanel.display0 # InitMultipanel.display0
    /\ multipanel.led_nav = 1 /\ mode = "N"
    /\ multipanel.hdg = 1 /\ multipanel.ahdg = 1
    /\ multipanel.flaps_up = 1 /\ multipanel.flaps = 1
    /\ multipanel.mode # 0

====
